---- MODULE Spec2Model ----
(***************************************************************************)
(* BD compatibility layer: plugin assembly (pluginConstructor.ts), the     *)
(* plugin-registry control facade BdApi.Plugins (fakeBdApi), the layer-    *)
(* wide reload (utils) and Webpack.waitForModule, as state machines over   *)
(* the single-threaded event loop of the host.                             *)
(***************************************************************************)
EXTENDS Integers, Sequences, FiniteSets, TLC

VARIABLES
    recs,            \* every AssembledBetterDiscordPlugin object ever built, by identity
    plugins,         \* Vencord.Plugins.plugins: name -> 0 (native host plugin) or a record
    enabled,         \* Vencord.Settings.plugins[name].enabled
    pluginsStatus,   \* Settings.plugins["BD Compatibility Layer"].pluginsStatus
    GeneratedPlugins,\* window.GeneratedPlugins
    queuedPlugins,   \* window.BdCompatLayer.queuedPlugins
    notices,         \* number of persistent notices raised by showNotice
    files,           \* plugin folder: filename -> source text (or Missing)
    mtime,           \* plugin folder: filename -> mtimeMs
    micro,           \* the microtask queue: promise continuations, FIFO
    timers,          \* pending setTimeout callbacks of reloadCompatLayer
    ops,             \* calls of BdApi.Plugins.* made so far, with what they did
    scanned,         \* the startup scan of the plugin folder has run
    running,         \* a script (macrotask) is executing and may call BdApi.Plugins
    pageReloaded,    \* location.reload() has been executed
    writes,          \* number of file writes so far
    pendingChangelogs, \* names with a version change queued for a changelog
    conv,            \* SpecConv: the convertPlugin call under test and its outcome
    sigs,            \* SpecSig: the enable() decision under test
    wait,            \* SpecWait: one waitForModule call
    bdapi,           \* SpecApi: the scoped API instances and their registry
    req,             \* SpecRequire: one call of the plugin-facing require
    emitter,         \* SpecEmit: a FakeEventEmitter and what its listeners saw
    data,            \* SpecData: the Data cache and the config files on disk
    modal,           \* SpecModal: the confirmation modals and their registry
    mangled,         \* SpecMangled: one getMangled call
    patcher,         \* SpecPatch: the objects patched through the Patcher
    changelog,       \* SpecChangelog: one vcIsNewer / vcParseChangelog call
    boot,            \* SpecBoot: the start() of the layer and what it waits for
    layer            \* SpecStop: the stop() of the layer, step by step

vars == <<recs, plugins, enabled, pluginsStatus, GeneratedPlugins, queuedPlugins,
          notices, files, mtime, micro, timers, ops, scanned, running, pageReloaded, writes,
          pendingChangelogs, conv, sigs, wait,
          bdapi, req, emitter, data, modal, mangled, patcher, changelog, boot, layer>>

layerVars == <<changelog, boot, layer>>

facadeVars == <<bdapi, req, emitter, data, modal, mangled, patcher, layerVars>>

lifeVars == <<recs, plugins, enabled, pluginsStatus, GeneratedPlugins, queuedPlugins,
              notices, files, mtime, micro, timers, ops, scanned, running, pageReloaded, writes,
              pendingChangelogs>>

----------------------------------------------------------------------------
(* Bounds of the model *)

\* calls of enable/disable/reload in one run
MaxCalls == 2
\* writes to plugin files in one run
MaxWrites == 1
\* modification times reach up to (MaxHi + 1) * 2^30 milliseconds
MaxHi == 4

----------------------------------------------------------------------------
(* Values *)

\* a registry lookup that finds nothing (JavaScript undefined)
NoEntry == 0 - 1
\* a native host plugin: an entry of Vencord.Plugins.plugins without `instance`
NativeEntry == 0

\* a getter the instance does not define
NoGetter == "<no getter>"

DuplicateSuffix == "-BD"
FallbackVersion == "6.6.6"

neededMeta == <<"name", "version", "description">>

Range(s) == {s[i] : i \in DOMAIN s}

\* Array.prototype.indexOf / findIndex: first index, 0 when there is none
IndexOf(s, x) ==
    IF \E i \in DOMAIN s : s[i] = x
    THEN CHOOSE i \in DOMAIN s : s[i] = x /\ \A j \in 1..(i-1) : s[j] # x
    ELSE 0

\* Array.prototype.splice(i, 1)
RemoveAt(s, i) == [j \in 1..(Len(s)-1) |-> IF j < i THEN s[j] ELSE s[j+1]]

\* obj[key] = value on a plain object
Put(obj, key, value) ==
    [k \in DOMAIN obj \cup {key} |-> IF k = key THEN value ELSE obj[k]]

\* delete obj[key]
Delete(obj, key) == [k \in DOMAIN obj \ {key} |-> obj[k]]

----------------------------------------------------------------------------
(* The heap a handler works on.  A handler is a function from heap to heap;
   `exc` is the exception it ends with ("none": it returned), `ret` the
   record it returned, `calls` the calls it made, in order. *)

Heap(env) ==
    [recs |-> recs, plugins |-> plugins, enabled |-> enabled, status |-> pluginsStatus,
     gen |-> GeneratedPlugins, queued |-> queuedPlugins, notices |-> notices,
     exc |-> "none", ret |-> 0, missing |-> <<>>, resolved |-> "", calls |-> <<>>,
     env |-> env]

\* what the environment decides during one handler: which facade calls throw
Envs == [unpatchThrows : BOOLEAN, styleThrows : BOOLEAN]
CalmEnv == [unpatchThrows |-> FALSE, styleThrows |-> FALSE]

Threw(S) == S.exc # "none"
Caught(S) == [S EXCEPT !.exc = "none"]
Call(S, what) == [S EXCEPT !.calls = Append(@, what)]

\* Vencord.Plugins.plugins[name]
Lookup(S, name) == IF name \in DOMAIN S.plugins THEN S.plugins[name] ELSE NoEntry

IsRecord(e) == e # NoEntry /\ e # NativeEntry

----------------------------------------------------------------------------
(* The start/stop wrappers convertPlugin binds to a record *)

startFunction(S, r) ==
    LET S1 == Call([S EXCEPT !.status = Put(@, S.recs[r].name, TRUE)], "instance.start")
    IN IF S.recs[r].startThrows THEN [S1 EXCEPT !.exc = "StartError"] ELSE S1

stopFunction(S, r) ==
    LET S1 == Call([S EXCEPT !.status = Put(@, S.recs[r].name, FALSE)], "instance.stop")
    IN IF S.recs[r].stopThrows THEN [S1 EXCEPT !.exc = "StopError"] ELSE S1

----------------------------------------------------------------------------
(* The host runtime: Vencord.Plugins.startPlugin / stopPlugin / isPluginEnabled *)

hostStartPlugin(S, e) ==
    IF e = NoEntry THEN [S EXCEPT !.exc = "TypeError"]
    ELSE IF e = NativeEntry THEN S
    ELSE IF S.recs[e].started THEN S
    ELSE LET S1 == startFunction(S, e)
         IN IF Threw(S1) THEN Caught(S1)
            ELSE [S1 EXCEPT !.recs[e].started = TRUE]

hostStopPlugin(S, e) ==
    IF e = NoEntry THEN [S EXCEPT !.exc = "TypeError"]
    ELSE IF e = NativeEntry THEN S
    ELSE IF ~S.recs[e].started THEN S
    ELSE LET S1 == stopFunction(S, e)
         IN IF Threw(S1) THEN Caught(S1)
            ELSE [S1 EXCEPT !.recs[e].started = FALSE]

isPluginEnabled(S, name) == S.enabled[name]

----------------------------------------------------------------------------
(* pluginConstructor.ts: the Sandbox Loader and the Plugin Assembler *)

\* The text handed to eval wraps the source in try{...}catch(e){console.error(e);debugger;}
\* (WRAPPER_AUTO_DEBUG_ENABLED), and ends with `return module`.
wrapBetterDiscordPluginCode(src) ==
    CASE src.evalMode = "syntaxError" ->
            [error |-> "SyntaxError", shape |-> "object", props |-> {}]
      [] src.evalMode = "throwsBeforeExport" ->
            [error |-> "none", shape |-> "object", props |-> {}]
      [] OTHER ->
            [error |-> "none", shape |-> src.exportShape, props |-> src.exportProps]

\* the export resolved with `default` looked up before the plugin name
resolveExport_defaultFirst(module) ==
    IF module.shape = "object"
    THEN IF "default" \in module.props THEN "default"
         ELSE IF "byName" \in module.props THEN "byName"
         ELSE "undefined"
    ELSE "self"

\* if (typeof exports === "object") exports = exports[final.name] ?? exports.default;
resolveExport(module) ==
    IF module.shape = "object"
    THEN IF "byName" \in module.props THEN "byName"
         ELSE IF "default" \in module.props THEN "default"
         ELSE "undefined"
    ELSE "self"

\* final.instance.getVersion() || "6.6.6"
OrFallback(v) == IF v = "" THEN FallbackVersion ELSE v

\* whatsMissing stopping at the first empty field
whatsMissing_firstOnly(final) ==
    LET all == SelectSeq(neededMeta, LAMBDA prop : final[prop] = "")
    IN IF all = <<>> THEN all ELSE <<all[1]>>

\* neededMeta.filter(prop => !final || !final[prop])
whatsMissing(final) == SelectSeq(neededMeta, LAMBDA prop : final[prop] = "")

\* the first queued entry with this filename
queuedIndex(S, filename) ==
    IF \E i \in DOMAIN S.queued : S.recs[S.queued[i]].filename = filename
    THEN CHOOSE i \in DOMAIN S.queued :
            /\ S.recs[S.queued[i]].filename = filename
            /\ \A j \in 1..(i-1) : S.recs[S.queued[j]].filename # filename
    ELSE 0

\* detectDuplicateName: the target name is taken by an entry without `instance`
needsSuffix(S, name) == Lookup(S, name) = NativeEntry

\* parseLegacyMeta with a description made up when the JSON carries none
parseLegacyMeta_defaulted(src) ==
    [error |-> ~src.metaOk, name |-> src.name, id |-> "", version |-> src.version,
     description |-> IF src.description = "" THEN src.name ELSE src.description]

\* //META{...}*// : the keys of the JSON object, nothing else; a key the JSON does
\* not carry keeps the value convertPlugin gave `final` before (empty)
parseLegacyMeta(src) ==
    [error |-> ~src.metaOk, name |-> src.name, id |-> "", version |-> src.version,
     description |-> src.description]

\* the /** ... */ block: @name also gives the id
parseNewMeta(src) ==
    [error |-> ~src.metaOk, name |-> src.name, id |-> src.name, version |-> src.version,
     description |-> src.description]

\* source.substring(0, 64).includes("//META") ? parseLegacyMeta : parseNewMeta
parsedMeta(src) ==
    IF src.format = "legacy" THEN parseLegacyMeta(src) ELSE parseNewMeta(src)

convertPlugin(S, src, filename, detectDuplicateName) ==
    IF parsedMeta(src).error THEN [S EXCEPT !.exc = "MetaError"]
    ELSE
    LET r == Len(S.recs) + 1
        pluginMeta == parsedMeta(src)
        final0 == [name |-> pluginMeta.name, originalName |-> "", id |-> pluginMeta.id,
                   filename |-> filename, version |-> pluginMeta.version,
                   description |-> pluginMeta.description, started |-> FALSE,
                   hasSig |-> FALSE, sig |-> 0, instFrom |-> "", partial |-> FALSE,
                   startThrows |-> src.startThrows, stopThrows |-> src.stopThrows]
        S0 == [S EXCEPT !.recs = Append(@, final0), !.queued = Append(@, r)]
        module == wrapBetterDiscordPluginCode(src)
        from == resolveExport(module)
        S1 == [S0 EXCEPT !.resolved = from]
    IN
    IF module.error # "none" THEN [S0 EXCEPT !.exc = module.error]
    ELSE IF from = "undefined" THEN [S1 EXCEPT !.exc = "TypeError"]
    ELSE IF src.ctorThrows THEN [S1 EXCEPT !.exc = "CtorError"]
    ELSE
    LET S2 == [S1 EXCEPT !.recs[r].instFrom = from,
                         !.recs[r].partial = (src.evalMode # "ok")]
    IN
    IF src.loadThrows THEN [S2 EXCEPT !.exc = "LoadError"]
    ELSE
    LET name1 == IF src.getName # NoGetter THEN src.getName ELSE pluginMeta.name
        version1 == IF src.getVersion # NoGetter THEN OrFallback(src.getVersion)
                    ELSE pluginMeta.version
        description1 == IF src.getDescription # NoGetter THEN src.getDescription
                        ELSE pluginMeta.description
        name2 == IF detectDuplicateName /\ needsSuffix(S2, name1)
                 THEN name1 \o DuplicateSuffix ELSE name1
        final == [S2.recs[r] EXCEPT !.name = name2, !.originalName = name1,
                                    !.version = version1, !.description = description1]
        S3 == [S2 EXCEPT !.recs[r] = final]
        miss == whatsMissing(final)
    IN
    IF Len(miss) > 0
    THEN [S3 EXCEPT !.notices = @ + 1, !.missing = miss, !.exc = "Incomplete"]
    ELSE
    LET index == queuedIndex(S3, filename)
    IN [S3 EXCEPT !.queued = IF index # 0 THEN RemoveAt(@, index) ELSE @,
                  !.ret = r]

----------------------------------------------------------------------------
(* File signatures *)

\* A modification time is a whole number of milliseconds, written hi * 2^30 + lo
\* with 0 <= lo < 2^30, so that every value the model computes fits a 32-bit integer.
TwoTo30 == 1073741824
Ms(hi, lo) == [hi |-> hi, lo |-> lo]

\* x | 0 : ToInt32, the low 32 bits of x read as a signed integer
ToInt32(m) ==
    LET k == m.hi % 4
    IN IF k < 2 THEN k * TwoTo30 + m.lo ELSE (k - 4) * TwoTo30 + m.lo

NoSig == [has |-> FALSE, val |-> 0]
Sig(v) == [has |-> TRUE, val |-> v]

\* fs.statSync(path) throws for a file that does not exist
statThrows(filename) == ~files[filename].exists

\* getFileSig(p): undefined when statSync throws
getFileSig(filename) ==
    IF statThrows(filename) THEN NoSig ELSE Sig(ToInt32(mtime[filename]))

\* stampFileSigOnCurrent(name)
stampFileSigOnCurrent(S, name) ==
    LET inst == Lookup(S, name)
    IN IF ~IsRecord(inst) THEN S
       ELSE LET g == getFileSig(S.recs[inst].filename)
            IN [S EXCEPT !.recs[inst].hasSig = g.has, !.recs[inst].sig = g.val]

\* the condition under which enable() takes the soft-reload path
\* hadSig, nowSig: [has, val]; hasFilename: current?.filename is set
wantsSoftReload(hasFilename, hadSig, nowSig) ==
    \/ (hasFilename /\ nowSig.has /\ hadSig # nowSig)
    \/ ((~hadSig.has \/ hadSig.val = 0) /\ nowSig.has)

----------------------------------------------------------------------------
(* pluginConstructor.ts: registration *)

\* addCustomPlugin starting every plugin that has a persisted intent, true or false
addCustomPlugin_startsKnown(S, r) ==
    LET name == S.recs[r].name
        S1 == [S EXCEPT !.plugins = Put(@, name, r)]
        S3 == [S1 EXCEPT !.enabled[name] = FALSE]
        S4 == IF name \in DOMAIN S3.status
              THEN hostStartPlugin([S3 EXCEPT !.enabled[name] = S3.status[name]],
                                   Lookup(S3, name))
              ELSE S3
    IN [S4 EXCEPT !.gen = Append(@, Lookup(S4, name))]

addCustomPlugin(S, r) ==
    LET name == S.recs[r].name
        S1 == [S EXCEPT !.plugins = Put(@, name, r)]
        S2 == IF statThrows(S.recs[r].filename) THEN S1
              ELSE [S1 EXCEPT !.recs[r].hasSig = TRUE,
                              !.recs[r].sig = ToInt32(mtime[S.recs[r].filename])]
        S3 == [S2 EXCEPT !.enabled[name] = FALSE]
        S4 == IF name \in DOMAIN S3.status
              THEN LET thePluginStatus == S3.status[name]
                       S3a == [S3 EXCEPT !.enabled[name] = thePluginStatus]
                   IN IF thePluginStatus THEN hostStartPlugin(S3a, Lookup(S3a, name))
                      ELSE S3a
              ELSE S3
    IN [S4 EXCEPT !.gen = Append(@, Lookup(S4, name))]

RECURSIVE removeFrom_noRestore(_, _, _)
\* the loop of removeAllCustomPlugins leaving what the stop wrapper wrote
removeFrom_noRestore(S, list, i) ==
    IF i > Len(list) THEN S
    ELSE
    LET g == list[i]
        name == S.recs[g].name
        S1 == [S EXCEPT !.enabled[name] = FALSE]
        S2 == IF S1.recs[g].started THEN hostStopPlugin(S1, g) ELSE S1
        S3 == [S2 EXCEPT !.plugins = Delete(@, name)]
    IN removeFrom_noRestore(S3, list, i + 1)

RECURSIVE removeFrom(_, _, _)
\* the loop of removeAllCustomPlugins over GeneratedPlugins, from index i
removeFrom(S, list, i) ==
    IF i > Len(list) THEN S
    ELSE
    LET g == list[i]
        name == S.recs[g].name
        S1 == [S EXCEPT !.enabled[name] = FALSE]
        S2 == IF S1.recs[g].started
              THEN LET known == name \in DOMAIN S1.status
                       currentStatus == known /\ S1.status[name]
                       S1a == hostStopPlugin(S1, g)
                   IN IF currentStatus
                      THEN [S1a EXCEPT !.status = Put(@, name, TRUE)]
                      ELSE S1a
              ELSE S1
        S3 == [S2 EXCEPT !.plugins = Delete(@, name)]
    IN removeFrom(S3, list, i + 1)

removeAllCustomPlugins(S) ==
    [removeFrom(S, S.gen, 1) EXCEPT !.gen = <<>>]

----------------------------------------------------------------------------
(* fakeBdApi: helpers of BdApi.Plugins *)

\* all.find(p => p.name === x || p.originalName === x || p.id === x || p.filename === x)
\* over [...GeneratedPlugins, ...queuedPlugins]; 0 when nothing matches
resolvePluginByAny(S, idOrFile) ==
    LET all == S.gen \o S.queued
        hit(r) == \/ S.recs[r].name = idOrFile
                  \/ S.recs[r].originalName = idOrFile
                  \/ S.recs[r].id = idOrFile
                  \/ S.recs[r].filename = idOrFile
    IN IF \E i \in DOMAIN all : hit(all[i])
       THEN all[CHOOSE i \in DOMAIN all : hit(all[i]) /\ \A j \in 1..(i-1) : ~hit(all[j])]
       ELSE 0

\* safeStopPlugin with one try around the three calls
safeStopPlugin_oneTry(S, name) ==
    LET S1 == hostStopPlugin(Call(S, "stopPlugin"), Lookup(S, name))
        S2 == IF Threw(S1) THEN S1
              ELSE LET c == Call(S1, "unpatchAll:" \o name)
                   IN IF S.env.unpatchThrows THEN [c EXCEPT !.exc = "Error"] ELSE c
        S3 == IF Threw(S2) THEN S2
              ELSE LET c == Call(S2, "removeStyle:" \o name)
                   IN IF S.env.styleThrows THEN [c EXCEPT !.exc = "Error"] ELSE c
    IN Caught(S3)

\* try { stopPlugin(plugins[name]) } catch { }  try { Patcher.unpatchAll(name) } catch { }
\* try { DOM.removeStyle(name) } catch { }
safeStopPlugin(S, name) ==
    LET S1 == Caught(hostStopPlugin(Call(S, "stopPlugin"), Lookup(S, name)))
        S2 == LET c == Call(S1, "unpatchAll:" \o name)
              IN IF S.env.unpatchThrows THEN Caught([c EXCEPT !.exc = "Error"]) ELSE c
        S3 == LET c == Call(S2, "removeStyle:" \o name)
              IN IF S.env.styleThrows THEN Caught([c EXCEPT !.exc = "Error"]) ELSE c
    IN S3

\* softReloadBDPlugin up to `await convertPlugin(...)`: ends with the assembled
\* record in `ret`, or with the exception that rejects the reload
softReloadDetach(S, p) ==
    LET name == S.recs[p].name
        wasEnabled == isPluginEnabled(S, name)
        S1 == [S EXCEPT !.status = Put(@, name, wasEnabled)]
        S2 == safeStopPlugin(S1, name)
        inst == Lookup(S2, name)
        idx == IndexOf(S2.gen, inst)
        S3 == [S2 EXCEPT !.gen = IF idx > 0 THEN RemoveAt(@, idx) ELSE @,
                         !.plugins = Delete(@, name)]
        S4 == Call(S3, "readFileSync")
    IN IF ~files[S.recs[p].filename].exists
       THEN [S4 EXCEPT !.exc = "ENOENT"]
       ELSE convertPlugin(S4, files[S.recs[p].filename], S.recs[p].filename, TRUE)

----------------------------------------------------------------------------
(* The plugin folder and the plugins in it *)

FileA == "a.plugin.js"
FileB == "b.plugin.js"
\* readdirSync(folder).sort()
FolderOrder == <<FileA, FileB>>
FileNames == Range(FolderOrder)

\* a well-formed plugin source: structured-comment meta, a class as module.exports
Plain(name, version) ==
    [exists |-> TRUE, format |-> "jsdoc", metaOk |-> TRUE, name |-> name, version |-> version, description |-> "d",
     evalMode |-> "ok", exportShape |-> "class", exportProps |-> {},
     ctorThrows |-> FALSE, loadThrows |-> FALSE,
     getName |-> NoGetter, getVersion |-> NoGetter, getDescription |-> NoGetter,
     startThrows |-> FALSE, stopThrows |-> FALSE]

\* a file that does not exist
Missing == [Plain("", "") EXCEPT !.exists = FALSE]

FooV1 == Plain("Foo", "1.0.0")
FooV2 == Plain("Foo", "1.1.0")
FooBroken == [Plain("Foo", "1.0.0") EXCEPT !.ctorThrows = TRUE]
\* a plugin named like a native host plugin, whose stop() throws
NatV1 == [Plain("Nat", "1.0.0") EXCEPT !.stopThrows = TRUE]

\* what a write may leave in each file
ContentsOf(f) == IF f = FileA THEN {FooV1, FooV2, FooBroken, Missing} ELSE {NatV1}

NativePlugins == {"Nat"}
BaseNames == {"Foo", "Nat"}
PluginNames == BaseNames \cup {n \o DuplicateSuffix : n \in BaseNames}

\* what callers pass to enable/disable/reload: a name, an original name, a filename
CallIds == {"Foo", "Nat"}

\* pluginsStatus as persisted by earlier sessions
PersistedStatus ==
    { <<>>, [n \in {"Foo", "Nat-BD"} |-> TRUE] }

----------------------------------------------------------------------------
(* Bookkeeping of calls *)

\* what a caller can observe of plugin `name`
Observe(S, name) ==
    LET e == Lookup(S, name)
    IN [registered |-> IsRecord(e),
        started |-> IsRecord(e) /\ S.recs[e].started,
        enabled |-> S.enabled[name],
        status |-> name \in DOMAIN S.status /\ S.status[name]]

NoObs == [registered |-> FALSE, started |-> FALSE, enabled |-> FALSE, status |-> FALSE]

NewOp(kind, id, p) ==
    [kind |-> kind, id |-> id, p |-> p, old |-> NoEntry, new |-> 0, log |-> <<>>,
     calls |-> <<>>, state |-> "running", alone |-> TRUE,
     before |-> NoObs, after |-> NoObs, detached |-> TRUE, threw |-> FALSE,
     sig |-> [hasFilename |-> FALSE, hadSig |-> NoSig, nowSig |-> NoSig]]

Running == {o \in DOMAIN ops : ops[o].state = "running"}

\* the op table after a new call: the calls still in flight are no longer alone
Begin(op) ==
    Append([o \in DOMAIN ops |->
               IF ops[o].state = "running" THEN [ops[o] EXCEPT !.alone = FALSE]
               ELSE ops[o]],
           [op EXCEPT !.alone = (Running = {})])

Task(k, op, rec) == [k |-> k, op |-> op, rec |-> rec]

\* write a heap back to the state
Commit(S) ==
    /\ recs' = S.recs
    /\ plugins' = S.plugins
    /\ enabled' = S.enabled
    /\ pluginsStatus' = S.status
    /\ GeneratedPlugins' = S.gen
    /\ queuedPlugins' = S.queued
    /\ notices' = S.notices

\* A call is made by a script: a macrotask, which starts when the microtask queue is
\* empty and may make several calls before the queued continuations run.
CanCall == ~pageReloaded /\ scanned /\ Len(ops) < MaxCalls /\ (running \/ micro = <<>>)

\* a continuation runs when no script is executing
CanRun(k) == ~pageReloaded /\ ~running /\ micro # <<>> /\ Head(micro).k = k

----------------------------------------------------------------------------
(* Scanning the plugin folder: the startup scan and reloadCompatLayer *)

RECURSIVE scanFrom_stopOnFailure(_, _)
\* the scan giving up at the first file whose conversion throws
scanFrom_stopOnFailure(acc, i) ==
    IF i > Len(FolderOrder) THEN acc
    ELSE LET f == FolderOrder[i]
         IN IF ~files[f].exists THEN scanFrom_stopOnFailure(acc, i + 1)
            ELSE LET S1 == convertPlugin(acc.heap, files[f], f, TRUE)
                 IN IF Threw(S1) THEN [heap |-> Caught(S1), done |-> acc.done]
                    ELSE scanFrom_stopOnFailure([heap |-> S1,
                                                 done |-> Append(acc.done, S1.ret)],
                                                i + 1)

RECURSIVE scanFrom(_, _)
\* for each *.plugin.js, in order: readFileSync, convertPlugin(..., true, folder),
\* .then(addCustomPlugin).  Result: the heap and the records whose conversion resolved.
scanFrom(acc, i) ==
    IF i > Len(FolderOrder) THEN acc
    ELSE LET f == FolderOrder[i]
         IN IF ~files[f].exists THEN scanFrom(acc, i + 1)
            ELSE LET S1 == convertPlugin(acc.heap, files[f], f, TRUE)
                 IN scanFrom([heap |-> Caught(S1),
                              done |-> IF Threw(S1) THEN acc.done
                                       ELSE Append(acc.done, S1.ret)],
                             i + 1)

scanFolder(S) == scanFrom([heap |-> S, done |-> <<>>], 1)

AddTasks(done, op) == [i \in DOMAIN done |-> Task("add", op, done[i])]

----------------------------------------------------------------------------
(* Layer start: the scan of the plugin folder *)

StartScan ==
    /\ ~scanned /\ ~running
    /\ LET sc == scanFolder(Heap(CalmEnv))
       IN /\ Commit(sc.heap)
          /\ micro' = micro \o AddTasks(sc.done, 0)
    /\ scanned' = TRUE
    /\ UNCHANGED <<files, mtime, timers, ops, running, pageReloaded, writes, pendingChangelogs, conv, sigs, wait, facadeVars>>

\* conv.then(plugin => addCustomPlugin(plugin))
RunAdd ==
    /\ CanRun("add")
    /\ Commit(addCustomPlugin(Heap(CalmEnv), Head(micro).rec))
    /\ micro' = Tail(micro)
    /\ UNCHANGED <<files, mtime, timers, ops, scanned, running, pageReloaded, writes, pendingChangelogs, conv, sigs, wait, facadeVars>>

\* something outside the layer (a plugin updater, the user) rewrites a plugin file
WriteFile(f, c) ==
    /\ ~pageReloaded /\ ~running /\ micro = <<>>
    /\ writes < MaxWrites
    /\ c # files[f]
    /\ files' = [files EXCEPT ![f] = c]
    /\ mtime' = [mtime EXCEPT ![f].lo = @ + 1]
    /\ writes' = writes + 1
    /\ UNCHANGED <<recs, plugins, enabled, pluginsStatus, GeneratedPlugins, queuedPlugins,
                   notices, micro, timers, ops, scanned, running, pageReloaded, pendingChangelogs, conv, sigs, wait, facadeVars>>

----------------------------------------------------------------------------
(* BdApi.Plugins.enable / disable / reload *)

\* reload() running its steps whatever the outcome of the one before
nextStep_regardless(step, outcome) ==
    CASE step = "soft" -> "all"
      [] step = "all" -> "page"
      [] OTHER -> "return"

\* the steps of reload(), in order, and what follows each outcome
nextStep(step, outcome) ==
    IF outcome = "ok" THEN "return"
    ELSE CASE step = "soft" -> "all"
           [] step = "all" -> "page"
           [] OTHER -> "return"

\* try { startPlugin(plugins[name]); stampFileSigOnCurrent(name); } catch { }
startExisting(S, name) ==
    LET S1 == hostStartPlugin(Call(S, "startPlugin"), Lookup(S, name))
    IN IF Threw(S1) THEN Caught(S1) ELSE stampFileSigOnCurrent(S1, name)

\* the signature enable() compares: of the registered record, else of p
currentSig(S, p) ==
    LET current == Lookup(S, S.recs[p].name)
    IN [hasFilename |-> IsRecord(current),
        hadSig |-> IF IsRecord(current)
                   THEN [has |-> S.recs[current].hasSig, val |-> S.recs[current].sig]
                   ELSE NoSig,
        nowSig |-> IF current = NoEntry THEN getFileSig(S.recs[p].filename)
                   ELSE IF current = NativeEntry THEN NoSig
                   ELSE getFileSig(S.recs[current].filename)]

\* the continuation a soft reload suspends with at `await convertPlugin(...)`
SoftTask(S, o) == IF Threw(S) THEN Task("softFail", o, 0) ELSE Task("softAdd", o, S.ret)

CallEnable(idOrFile) ==
    /\ CanCall
    /\ LET S0 == Heap(CalmEnv)
           p == resolvePluginByAny(S0, idOrFile)
           o == Len(ops) + 1
           op == NewOp("enable", idOrFile, p)
       IN IF p = 0
          THEN /\ ops' = Begin([op EXCEPT !.state = "returned"])
               /\ UNCHANGED <<recs, plugins, enabled, pluginsStatus, GeneratedPlugins,
                              queuedPlugins, notices, micro>>
          ELSE LET name == S0.recs[p].name
                   S1 == [S0 EXCEPT !.enabled[name] = TRUE, !.status = Put(@, name, TRUE)]
                   c == currentSig(S1, p)
               IN IF wantsSoftReload(c.hasFilename, c.hadSig, c.nowSig)
                  THEN LET S2 == softReloadDetach(S1, p)
                       IN /\ Commit(Caught(S2))
                          /\ micro' = Append(micro, SoftTask(S2, o))
                          /\ ops' = Begin([op EXCEPT !.old = Lookup(S1, name),
                                                     !.before = Observe(S0, name),
                                                     !.sig = c,
                                                     !.log = <<"soft">>,
                                                     !.calls = S2.calls])
                  ELSE LET S2 == startExisting(S1, name)
                       IN /\ Commit(S2)
                          /\ micro' = micro
                          /\ ops' = Begin([op EXCEPT !.before = Observe(S0, name),
                                                     !.after = Observe(S2, name),
                                                     !.sig = c,
                                                     !.log = <<"start">>,
                                                     !.calls = S2.calls,
                                                     !.state = "returned"])
    /\ running' = TRUE
    /\ UNCHANGED <<files, mtime, timers, scanned, pageReloaded, writes, pendingChangelogs, conv, sigs, wait, facadeVars>>

CallDisable(idOrFile, env) ==
    /\ CanCall
    /\ LET S0 == Heap(env)
           p == resolvePluginByAny(S0, idOrFile)
           op == NewOp("disable", idOrFile, p)
       IN IF p = 0
          THEN /\ ops' = Begin([op EXCEPT !.state = "returned"])
               /\ UNCHANGED <<recs, plugins, enabled, pluginsStatus, GeneratedPlugins,
                              queuedPlugins, notices>>
          ELSE LET name == S0.recs[p].name
                   S1 == [S0 EXCEPT !.enabled[name] = FALSE,
                                    !.status = Put(@, name, FALSE)]
                   S2 == safeStopPlugin(Call(S1, "intent:false"), name)
               IN /\ Commit(Caught(S2))
                  /\ ops' = Begin([op EXCEPT !.before = Observe(S0, name),
                                             !.after = Observe(S2, name),
                                             !.calls = S2.calls,
                                             !.threw = Threw(S2),
                                             !.state = "returned"])
    /\ running' = TRUE
    /\ UNCHANGED <<files, mtime, micro, timers, scanned, pageReloaded, writes,
                   pendingChangelogs, conv, sigs, wait, facadeVars>>

\* reloadCompatLayer() up to `await removeAllCustomPlugins()`
reloadAllBegin(S) == removeAllCustomPlugins(S)

CallReload(idOrFile) ==
    /\ CanCall
    /\ LET S0 == Heap(CalmEnv)
           p == resolvePluginByAny(S0, idOrFile)
           o == Len(ops) + 1
           op == NewOp("reload", idOrFile, p)
       IN IF p # 0
          THEN LET name == S0.recs[p].name
                   S2 == softReloadDetach(S0, p)
               IN /\ Commit(Caught(S2))
                  /\ micro' = Append(micro, SoftTask(S2, o))
                  /\ ops' = Begin([op EXCEPT !.old = Lookup(S0, name),
                                             !.before = Observe(S0, name),
                                             !.log = <<"soft">>,
                                             !.calls = S2.calls])
          ELSE /\ Commit(reloadAllBegin(S0))
               /\ micro' = Append(micro, Task("allWait", o, 0))
               /\ ops' = Begin([op EXCEPT !.log = <<"all">>])
    /\ running' = TRUE
    /\ UNCHANGED <<files, mtime, timers, scanned, pageReloaded, writes, pendingChangelogs, conv, sigs, wait, facadeVars>>

\* the script ends; the continuations it queued start to run
EndScript ==
    /\ running
    /\ running' = FALSE
    /\ UNCHANGED <<recs, plugins, enabled, pluginsStatus, GeneratedPlugins, queuedPlugins,
                   notices, files, mtime, micro, timers, ops, scanned, pageReloaded,
                   writes, pendingChangelogs, conv, sigs, wait, facadeVars>>

----------------------------------------------------------------------------
(* Continuations of enable() and reload() *)

\* location.reload() inside try/catch; `blocked`: the environment refuses it
tryPageReload(S, blocked) ==
    IF blocked THEN Caught([S EXCEPT !.exc = "SecurityError"]) ELSE S

Finish(o, S, logged) ==
    [ops EXCEPT ![o].log = logged,
                ![o].state = IF Threw(S) THEN "rejected" ELSE "returned",
                ![o].after = IF ops[o].p = 0 THEN NoObs
                             ELSE Observe(S, S.recs[ops[o].p].name)]

\* reload(): `step` ended with `outcome`; go on as nextStep says
Advance(o, S, step, outcome) ==
    LET nxt == nextStep(step, outcome)
        logged == Append(ops[o].log, step \o ":" \o outcome)
    IN CASE nxt = "all" ->
              /\ Commit(reloadAllBegin(S))
              /\ micro' = Append(Tail(micro), Task("allWait", o, 0))
              /\ ops' = [ops EXCEPT ![o].log = Append(logged, "all")]
              /\ UNCHANGED pageReloaded
         [] nxt = "page" ->
              \E blocked \in BOOLEAN :
                 LET S1 == tryPageReload(S, blocked)
                 IN /\ Commit(Caught(S1))
                    /\ micro' = Tail(micro)
                    /\ ops' = Finish(o, S1, Append(logged, "page"))
                    /\ pageReloaded' = ~blocked
         [] OTHER ->
              /\ Commit(S)
              /\ micro' = Tail(micro)
              /\ ops' = Finish(o, S, logged)
              /\ UNCHANGED pageReloaded

\* the old record is stopped and off both registries
Detached(S, old) ==
    IsRecord(old) =>
        /\ old \notin Range(S.gen)
        /\ \A n \in DOMAIN S.plugins : S.plugins[n] # old
        /\ (~S.recs[old].started \/ S.recs[old].stopThrows)

\* softReloadBDPlugin after `await convertPlugin(...)`: addCustomPlugin(assembled)
RunSoftAdd ==
    /\ CanRun("softAdd")
    /\ LET o == Head(micro).op
           S0 == Heap(CalmEnv)
       IN /\ Commit(addCustomPlugin(S0, Head(micro).rec))
          /\ ops' = [ops EXCEPT ![o].new = Head(micro).rec,
                                ![o].detached = Detached(S0, ops[o].old)]
          /\ micro' = Append(Tail(micro), Task("softStamp", o, Head(micro).rec))
    /\ UNCHANGED <<files, mtime, timers, scanned, running, pageReloaded, writes,
                   pendingChangelogs, conv, sigs, wait, facadeVars>>

\* softReloadBDPlugin after `await addCustomPlugin(...)`, and the caller's return
RunSoftStamp ==
    /\ CanRun("softStamp")
    /\ LET o == Head(micro).op
           p == ops[o].p
           S1 == stampFileSigOnCurrent(Heap(CalmEnv), recs[p].name)
           oldVer == recs[p].version
           newVer == recs[ops[o].new].version
       IN /\ pendingChangelogs' =
                IF oldVer # "" /\ newVer # "" /\ oldVer # newVer
                THEN pendingChangelogs \cup {recs[p].name} ELSE pendingChangelogs
          /\ IF ops[o].kind = "reload"
             THEN Advance(o, S1, "soft", "ok")
             ELSE /\ Commit(S1)
                  /\ micro' = Tail(micro)
                  /\ ops' = Finish(o, S1, Append(ops[o].log, "soft:ok"))
                  /\ UNCHANGED pageReloaded
    /\ UNCHANGED <<files, mtime, timers, scanned, running, writes, conv, sigs, wait, facadeVars>>

\* enable(): catch (e) { warn } and then start the existing instance
RunEnableFallback ==
    /\ CanRun("softFail")
    /\ ops[Head(micro).op].kind = "enable"
    /\ LET o == Head(micro).op
           S1 == startExisting(Heap(CalmEnv), recs[ops[o].p].name)
       IN /\ Commit(S1)
          /\ micro' = Tail(micro)
          /\ ops' = Finish(o, S1, ops[o].log \o <<"soft:fail", "start">>)
    /\ UNCHANGED <<files, mtime, timers, scanned, running, pageReloaded, writes,
                   pendingChangelogs, conv, sigs, wait, facadeVars>>

\* reload(): catch (e) { warn } and then the layer-wide fallback
RunReloadFallback ==
    /\ CanRun("softFail")
    /\ ops[Head(micro).op].kind = "reload"
    /\ Advance(Head(micro).op, Heap(CalmEnv), "soft", "fail")
    /\ UNCHANGED <<files, mtime, timers, scanned, running, writes, pendingChangelogs,
                   conv, sigs, wait, facadeVars>>

\* reloadCompatLayer after `await removeAllCustomPlugins()`: setTimeout(resolve, 500)
RunAllWait ==
    /\ CanRun("allWait")
    /\ timers' = timers \cup {Head(micro).op}
    /\ micro' = Tail(micro)
    /\ UNCHANGED <<recs, plugins, enabled, pluginsStatus, GeneratedPlugins, queuedPlugins,
                   notices, files, mtime, ops, scanned, running, pageReloaded, writes,
                   pendingChangelogs, conv, sigs, wait, facadeVars>>

\* the timer fires (a macrotask: the microtask queue is empty); reloadCompatLayer
\* lists the folder and converts every plugin file.  `fsFails`: readdirSync throws.
TimerFire(o, fsFails) ==
    /\ ~pageReloaded /\ ~running
    /\ micro = <<>>
    /\ o \in timers
    /\ timers' = timers \ {o}
    /\ IF fsFails
       THEN /\ micro' = <<Task("allFail", o, 0)>>
            /\ UNCHANGED <<recs, plugins, enabled, pluginsStatus, GeneratedPlugins,
                           queuedPlugins, notices>>
       ELSE LET sc == scanFolder(Heap(CalmEnv))
            IN /\ Commit(sc.heap)
               /\ micro' = AddTasks(sc.done, o) \o <<Task("allDone", o, 0)>>
    /\ UNCHANGED <<files, mtime, ops, scanned, running, pageReloaded, writes,
                   pendingChangelogs, conv, sigs, wait, facadeVars>>

\* reload() after `await reloadCompatLayer()` resolved
RunAllDone ==
    /\ CanRun("allDone")
    /\ Advance(Head(micro).op, Heap(CalmEnv), "all", "ok")
    /\ UNCHANGED <<files, mtime, timers, scanned, running, writes, pendingChangelogs,
                   conv, sigs, wait, facadeVars>>

\* reload() after `await reloadCompatLayer()` rejected
RunAllFail ==
    /\ CanRun("allFail")
    /\ Advance(Head(micro).op, Heap(CalmEnv), "all", "fail")
    /\ UNCHANGED <<files, mtime, timers, scanned, running, writes, pendingChangelogs,
                   conv, sigs, wait, facadeVars>>

----------------------------------------------------------------------------
(* The layer after start(): no legacy plugin loaded yet *)

IdleConv == [phase |-> "idle"]
IdleSigs == [phase |-> "idle"]
IdleWait == [phase |-> "idle"]
Idle == [phase |-> "idle"]

\* the facades are not in use
FacadeIdle ==
    /\ bdapi = Idle /\ req = Idle /\ emitter = Idle /\ data = Idle
    /\ modal = Idle /\ mangled = Idle /\ patcher = Idle
    /\ changelog = Idle /\ boot = Idle /\ layer = Idle

InitLife ==
    /\ recs = <<>>
    /\ plugins = [n \in NativePlugins |-> NativeEntry]
    /\ enabled = [n \in PluginNames |-> FALSE]
    /\ pluginsStatus \in PersistedStatus
    /\ GeneratedPlugins = <<>>
    /\ queuedPlugins = <<>>
    /\ notices = 0
    /\ files = [f \in FileNames |-> IF f = FileA THEN FooV1 ELSE NatV1]
    /\ mtime = [f \in FileNames |-> Ms(0, 1)]
    /\ micro = <<>>
    /\ timers = {}
    /\ ops = <<>>
    /\ scanned = FALSE
    /\ running = FALSE
    /\ pageReloaded = FALSE
    /\ writes = 0
    /\ pendingChangelogs = {}

Init ==
    /\ InitLife
    /\ conv = IdleConv
    /\ sigs = IdleSigs
    /\ wait = IdleWait
    /\ FacadeIdle

Next ==
    \/ StartScan
    \/ RunAdd
    \/ \E f \in FileNames : \E c \in ContentsOf(f) : WriteFile(f, c)
    \/ \E id \in CallIds : CallEnable(id)
    \/ \E id \in CallIds : \E env \in Envs : CallDisable(id, env)
    \/ \E id \in CallIds : CallReload(id)
    \/ EndScript
    \/ RunSoftAdd
    \/ RunSoftStamp
    \/ RunEnableFallback
    \/ RunReloadFallback
    \/ RunAllWait
    \/ \E o \in timers : \E fsFails \in BOOLEAN : TimerFire(o, fsFails)
    \/ RunAllDone
    \/ RunAllFail

Spec == Init /\ [][Next]_vars

----------------------------------------------------------------------------
(* Claims about enable / disable / reload *)

NameOf(i) == recs[GeneratedPlugins[i]].name

\* C1: at no point are there two live records for one plugin name: GeneratedPlugins
\* never holds two entries with the same name, and when a soft reload registers the
\* new record the old one is stopped and off GeneratedPlugins and the host registry.
C1_OneLiveRecordPerName ==
    /\ \A i, j \in DOMAIN GeneratedPlugins : i # j => NameOf(i) # NameOf(j)
    /\ \A o \in DOMAIN ops : ops[o].detached

SoftReloaded(o) ==
    /\ ops[o].state = "returned"
    /\ ops[o].alone
    /\ ops[o].log = <<"soft", "soft:ok">>

\* C2: the persisted intent survives a soft reload: a plugin that was enabled and
\* started when reload(name) ran is, after a successful soft reload, enabled in
\* pluginsStatus and in the host settings and its new instance is started; a plugin
\* that was disabled stays disabled and not started.
C2_IntentSurvivesSoftReload ==
    \A o \in DOMAIN ops :
        (ops[o].kind = "reload" /\ SoftReloaded(o)) =>
            /\ (ops[o].before.enabled /\ ops[o].before.started) =>
                   (ops[o].after.status /\ ops[o].after.enabled /\ ops[o].after.started)
            /\ (~ops[o].before.enabled /\ ~ops[o].before.started) =>
                   (~ops[o].after.enabled /\ ~ops[o].after.started)

\* C3: when the soft reload inside enable(name) of a registered plugin fails, enable
\* falls back to the existing instance: on return the plugin is still registered in
\* the host registry and is started.
C3_EnableFallbackStarts ==
    \A o \in DOMAIN ops :
        (/\ ops[o].kind = "enable"
         /\ ops[o].state = "returned"
         /\ ops[o].alone
         /\ ops[o].before.registered
         /\ ops[o].log = <<"soft", "soft:fail", "start">>) =>
            (ops[o].after.registered /\ ops[o].after.started)

IsPrefix(s, t) == Len(s) <= Len(t) /\ \A i \in DOMAIN s : s[i] = t[i]

\* the complete runs of reload(): each later step only after the earlier ones failed
ReloadRuns ==
    { <<"soft", "soft:ok">>,
      <<"soft", "soft:fail", "all", "all:ok">>,
      <<"soft", "soft:fail", "all", "all:fail", "page">>,
      <<"all", "all:ok">>,
      <<"all", "all:fail", "page">> }

\* C7: reload(id) attempts soft reload (only for a resolved plugin), then
\* reloadCompatLayer, then location.reload, in this order; a later step runs only
\* after every earlier attempted step failed, a successful step ends the chain, and
\* the returned promise never rejects.
C7_ReloadChain ==
    \A o \in DOMAIN ops :
        ops[o].kind = "reload" =>
            /\ ops[o].state # "rejected"
            /\ ops[o].log # <<>>
            /\ (ops[o].log[1] = "soft") <=> (ops[o].p # 0)
            /\ IF ops[o].state = "returned"
               THEN ops[o].log \in ReloadRuns
               ELSE \E run \in ReloadRuns :
                       Len(ops[o].log) < Len(run) /\ IsPrefix(ops[o].log, run)

\* a reload that went through all three steps
C7_Witness ==
    \E o \in DOMAIN ops :
        /\ ops[o].kind = "reload"
        /\ ops[o].state = "returned"
        /\ ops[o].log = <<"soft", "soft:fail", "all", "all:fail", "page">>

\* C8: disable(id) of a resolvable plugin sets the host enabled setting and
\* pluginsStatus[name] to false, stops a started instance, and always calls
\* Patcher.unpatchAll(name) and DOM.removeStyle(name), also when stop() throws or
\* the plugin was not started; disable never throws.
C8_DisableCleansUp ==
    \A o \in DOMAIN ops :
        (ops[o].kind = "disable" /\ ops[o].p # 0) =>
            LET name == recs[ops[o].p].name
                done == Range(ops[o].calls)
            IN /\ ~ops[o].threw
               /\ ops[o].state = "returned"
               /\ ~ops[o].after.enabled
               /\ ~ops[o].after.status
               /\ ops[o].before.started => "instance.stop" \in done
               /\ ("unpatchAll:" \o name) \in done
               /\ ("removeStyle:" \o name) \in done
               /\ ops[o].calls[1] = "intent:false"

\* a disable of a started plugin whose stop() throws
C8_Witness ==
    \E o \in DOMAIN ops :
        /\ ops[o].kind = "disable" /\ ops[o].p # 0
        /\ ops[o].before.started
        /\ recs[ops[o].p].stopThrows
        /\ "instance.stop" \in Range(ops[o].calls)

----------------------------------------------------------------------------
(* enable() and the file signature: every pair of modification times *)

MtimeSamples == {Ms(h, l) : h \in 0..MaxHi, l \in 0..1}

\* the plugin file is touched: its modification time becomes m (m may be the old one)
SigTouch(m) ==
    /\ sigs.phase = "fresh"
    /\ scanned /\ ~running /\ micro = <<>> /\ ops = <<>>
    /\ mtime' = [mtime EXCEPT ![FileA] = m]
    /\ sigs' = [phase |-> "touched"]
    /\ UNCHANGED <<recs, plugins, enabled, pluginsStatus, GeneratedPlugins, queuedPlugins,
                   notices, files, micro, timers, ops, scanned, running, pageReloaded,
                   writes, pendingChangelogs, conv, wait, facadeVars>>

InitSig ==
    /\ recs = <<>>
    /\ plugins = [n \in NativePlugins |-> NativeEntry]
    /\ enabled = [n \in PluginNames |-> FALSE]
    /\ pluginsStatus = <<>>
    /\ GeneratedPlugins = <<>>
    /\ queuedPlugins = <<>>
    /\ notices = 0
    /\ files = [f \in FileNames |-> IF f = FileA THEN FooV1 ELSE Missing]
    /\ mtime \in [FileNames -> MtimeSamples]
    /\ mtime[FileB] = Ms(0, 1)
    /\ micro = <<>>
    /\ timers = {}
    /\ ops = <<>>
    /\ scanned = FALSE
    /\ running = FALSE
    /\ pageReloaded = FALSE
    /\ writes = 0
    /\ pendingChangelogs = {}
    /\ conv = IdleConv
    /\ sigs = [phase |-> "fresh"]
    /\ wait = IdleWait
    /\ FacadeIdle

NextSig ==
    \/ StartScan
    \/ RunAdd
    \/ \E m \in MtimeSamples : SigTouch(m)
    \/ CallEnable("Foo")
    \/ EndScript
    \/ RunSoftAdd
    \/ RunSoftStamp

SpecSig == InitSig /\ [][NextSig]_vars

\* C4: enable(name) takes the soft-reload path if and only if the signature of the
\* file's current modification time differs from the stamped one, or no signature
\* was stamped; with an unchanged modification time it starts the existing instance
\* and does not read the plugin file.  Signatures are the stored values, mtimeMs | 0.
C4_SoftReloadIffChanged ==
    \A o \in DOMAIN ops :
        (ops[o].kind = "enable" /\ ops[o].p # 0) =>
            LET had == ops[o].sig.hadSig
                now == ops[o].sig.nowSig
                changed == now.has /\ (~had.has \/ had.val # now.val)
            IN /\ (ops[o].log[1] = "soft") <=> changed
               /\ (ops[o].log[1] = "start") <=> ~changed
               /\ ~changed => "readFileSync" \notin Range(ops[o].calls)

----------------------------------------------------------------------------
(* Webpack.waitForModule: one call, the abort event and the discovery *)

Undefined == [kind |-> "undefined", raw |-> FALSE, wrapped |-> FALSE]

\* resolve of the returned promise: only the first call settles it
resolve(w, v) ==
    [w EXCEPT !.resolveCalls = @ + 1,
              !.settled = TRUE,
              !.value = IF w.settled THEN @ ELSE v]

\* try { signal?.removeEventListener("abort", onAbort) } catch { }
removeAbortListener(w) ==
    IF w.hasSignal /\ ~w.removeThrows THEN [w EXCEPT !.listener = FALSE] ELSE w

onAbort(w) == resolve(removeAbortListener([w EXCEPT !.aborted = TRUE]), Undefined)

\* onFound without the test of `aborted`
onFound_lateArrival(w) ==
    LET w1 == removeAbortListener(w)
        wrapped == ~w.defaultExport /\ w.modKind = "function"
    IN resolve(w1, [kind |-> "module", raw |-> w.raw, wrapped |-> wrapped])

\* the callback handed to Vencord.Webpack.waitFor
onFound(w) ==
    LET w1 == removeAbortListener(w)
        wrapped == ~w.defaultExport /\ w.modKind = "function"
    IN IF w1.aborted THEN w1
       ELSE resolve(w1, [kind |-> "module", raw |-> w.raw, wrapped |-> wrapped])

waitForModule(w) ==
    IF w.hasSignal /\ w.signalAborted THEN onAbort(w)
    ELSE
    LET w1 == IF w.hasSignal THEN [w EXCEPT !.listener = TRUE] ELSE w
    IN IF w.loaded
       THEN resolve(removeAbortListener(w1),
                    [kind |-> "module", raw |-> w.raw, wrapped |-> FALSE])
       ELSE [w1 EXCEPT !.subscribed = TRUE]

WaitInputs ==
    [phase : {"created"}, hasSignal : BOOLEAN, signalAborted : BOOLEAN, loaded : BOOLEAN,
     defaultExport : BOOLEAN, raw : BOOLEAN, modKind : {"function", "object"},
     removeThrows : BOOLEAN, listener : {FALSE}, aborted : {FALSE}, subscribed : {FALSE},
     settled : {FALSE}, value : {Undefined}, resolveCalls : {0}, first : {"none"}]

WaitCall ==
    /\ wait.phase = "created"
    /\ wait' = [waitForModule(wait) EXCEPT
                    !.phase = "called",
                    !.first = IF wait.hasSignal /\ wait.signalAborted THEN "abort"
                              ELSE IF wait.loaded THEN "found" ELSE "none"]
    /\ UNCHANGED <<lifeVars, conv, sigs, facadeVars>>

\* the AbortSignal aborts: its abort event reaches the listener, registered once
SignalAbort ==
    /\ wait.phase \in {"created", "called"}
    /\ wait.hasSignal /\ ~wait.signalAborted
    /\ LET w == [wait EXCEPT !.signalAborted = TRUE,
                             !.first = IF wait.phase = "called" /\ @ = "none"
                                       THEN "abort" ELSE @]
       IN wait' = IF w.listener THEN onAbort([w EXCEPT !.listener = FALSE]) ELSE w
    /\ UNCHANGED <<lifeVars, conv, sigs, facadeVars>>

\* the module is loaded: the host hands it to the waiting callback
ModuleLoads ==
    /\ wait.phase \in {"created", "called"}
    /\ ~wait.loaded
    /\ LET w == [wait EXCEPT !.loaded = TRUE,
                             !.first = IF wait.phase = "called" /\ @ = "none"
                                       THEN "found" ELSE @]
       IN wait' = IF w.subscribed THEN onFound([w EXCEPT !.subscribed = FALSE]) ELSE w
    /\ UNCHANGED <<lifeVars, conv, sigs, facadeVars>>

InitWait ==
    /\ InitLife
    /\ pluginsStatus = <<>>
    /\ conv = IdleConv
    /\ sigs = IdleSigs
    /\ wait \in WaitInputs
    /\ FacadeIdle
    /\ wait.signalAborted => wait.hasSignal

NextWait == WaitCall \/ SignalAbort \/ ModuleLoads

SpecWait == InitWait /\ [][NextWait]_vars

\* C5: the promise of waitForModule stays pending until the first of abort and
\* discovery; an abort at call time or before the discovery resolves it with
\* undefined, exactly one resolve is ever made and the later discovery is a no-op;
\* a discovery that comes first resolves it with the module and a later abort leaves
\* that value, with a single resolve whenever the abort listener could be removed.
C5_WaitSettlesOnce ==
    wait.phase = "called" =>
        /\ wait.first = "none" => ~wait.settled /\ wait.resolveCalls = 0
        /\ wait.first = "abort" =>
               wait.settled /\ wait.value = Undefined /\ wait.resolveCalls = 1
        /\ wait.first = "found" =>
               /\ wait.settled /\ wait.value.kind = "module"
               /\ ~wait.removeThrows => wait.resolveCalls = 1

\* an abort won the race and the module was discovered afterwards
C5_Witness ==
    /\ wait.phase = "called" /\ wait.first = "abort"
    /\ wait.loaded /\ wait.aborted /\ ~wait.subscribed
    /\ wait.value = Undefined

----------------------------------------------------------------------------
(* convertPlugin on every kind of plugin source, then addCustomPlugin *)

EvalModes == {"ok", "syntaxError", "throwsBeforeExport", "throwsAfterExport"}

\* sources that differ in their meta block and legacy getters
MetaSources ==
    {[Plain(n, v) EXCEPT !.description = d, !.getName = gn,
                         !.getVersion = gv, !.getDescription = gd] :
        n \in {"", "Foo"}, v \in {"", "1.0.0"}, d \in {"", "d"},
        gn \in {NoGetter, "", "Nat"}, gv \in {NoGetter, "", "2.0.0"},
        gd \in {NoGetter, "", "g"}}

\* sources that differ in how they evaluate, what they export and what throws
EvalSources ==
    {[Plain("Foo", "1.0.0") EXCEPT !.evalMode = m, !.exportShape = sh, !.exportProps = pr,
                                   !.ctorThrows = c, !.loadThrows = l] :
        m \in EvalModes, sh \in {"class", "function", "object"},
        pr \in SUBSET {"byName", "default"}, c \in BOOLEAN, l \in BOOLEAN}

\* sources that open with the legacy //META{...}*// comment
LegacySources ==
    {[Plain(n, v) EXCEPT !.format = "legacy", !.description = d, !.metaOk = ok] :
        n \in {"", "Foo"}, v \in {"", "1.0.0"}, d \in {"", "d"}, ok \in BOOLEAN}

ConvSources ==
    MetaSources \cup EvalSources \cup LegacySources
        \cup {[Plain("Foo", "1.0.0") EXCEPT !.metaOk = FALSE]}

\* await convertPlugin(source, filename, detectDuplicateName)
ConvAssemble ==
    /\ conv.phase = "input"
    /\ LET S == convertPlugin(Heap(CalmEnv), conv.src, FileA, conv.detect)
       IN /\ Commit(Caught(S))
          /\ conv' = [conv EXCEPT !.phase = IF Threw(S) THEN "rejected" ELSE "resolved",
                                  !.exc = S.exc, !.missing = S.missing, !.ret = S.ret,
                                  !.resolved = S.resolved]
    /\ UNCHANGED <<files, mtime, micro, timers, ops, scanned, running, pageReloaded,
                   writes, pendingChangelogs, sigs, wait, facadeVars>>

\* .then(plugin => addCustomPlugin(plugin))
ConvRegister ==
    /\ conv.phase = "resolved"
    /\ Commit(Caught(addCustomPlugin(Heap(CalmEnv), conv.ret)))
    /\ conv' = [conv EXCEPT !.phase = "registered"]
    /\ UNCHANGED <<files, mtime, micro, timers, ops, scanned, running, pageReloaded,
                   writes, pendingChangelogs, sigs, wait, facadeVars>>

InitConv ==
    /\ InitLife
    /\ sigs = IdleSigs
    /\ wait = IdleWait
    /\ FacadeIdle
    /\ conv \in [phase : {"input"}, src : ConvSources, detect : BOOLEAN,
                 exc : {"none"}, missing : {<<>>}, ret : {0}, resolved : {""}]

NextConv == ConvAssemble \/ ConvRegister

SpecConv == InitConv /\ [][NextConv]_vars

\* the error the source or its constructor throws
ThrownBy(src) ==
    IF src.evalMode = "syntaxError" THEN "SyntaxError"
    ELSE IF src.evalMode # "ok" THEN "SourceError"
    ELSE "CtorError"

\* C9: when evaluating the source throws, or the exported constructor/factory
\* throws, convertPlugin rejects with that error, no instance is made from the
\* partially evaluated module and nothing is registered; also when module.exports
\* was assigned before the throw.
C9_ThrowRejectsUnregistered ==
    ( /\ conv.phase \in {"rejected", "resolved", "registered"}
      /\ conv.src.metaOk
      /\ \/ conv.src.evalMode # "ok"
         \/ conv.src.ctorThrows /\ resolveExport(wrapBetterDiscordPluginCode(conv.src)) # "undefined" )
    => /\ conv.phase = "rejected"
       /\ conv.exc = ThrownBy(conv.src)
       /\ \A r \in DOMAIN recs : recs[r].instFrom = ""
       /\ GeneratedPlugins = <<>>
       /\ \A n \in DOMAIN plugins : plugins[n] = NativeEntry

\* the source gets as far as the check of the required fields
ReachesValidation(src) ==
    /\ src.metaOk /\ src.evalMode # "syntaxError"
    /\ resolveExport(wrapBetterDiscordPluginCode(src)) # "undefined"
    /\ ~src.ctorThrows /\ ~src.loadThrows

\* C10: the fields of {name, version, description} that are empty after the meta
\* block and the legacy getters are exactly the fields the error names, each once,
\* with exactly one persistent notice; when none is empty there is no notice and
\* convertPlugin does not throw.
C10_NamesExactlyMissing ==
    (conv.phase \in {"rejected", "resolved", "registered"} /\ ReachesValidation(conv.src)) =>
        LET final == recs[Len(recs)]
            empty == {prop \in Range(neededMeta) : final[prop] = ""}
        IN IF empty # {}
           THEN /\ conv.phase = "rejected" /\ conv.exc = "Incomplete"
                /\ notices = 1
                /\ Range(conv.missing) = empty
                /\ Len(conv.missing) = Cardinality(empty)
           ELSE /\ conv.phase # "rejected" /\ conv.exc = "none"
                /\ notices = 0
                /\ conv.missing = <<>>

\* a getter emptied the name and the meta block had no description
C10_Witness ==
    /\ conv.phase = "rejected" /\ conv.exc = "Incomplete"
    /\ conv.src.name # "" /\ conv.src.getName = ""
    /\ conv.missing = <<"name", "description">>
    /\ notices = 1

\* //META{"name":"Foo","version":"1.0.0"}*// and a trivial exported constructor
Scenario1 == [Plain("Foo", "1.0.0") EXCEPT !.format = "legacy", !.description = ""]

\* C11 as stated: assembling the scenario source succeeds and yields a record with
\* name "Foo", version "1.0.0" and started false.
C11_LegacyScenarioAssembles ==
    (conv.phase # "input" /\ conv.src = Scenario1) =>
        /\ conv.phase \in {"resolved", "registered"}
        /\ conv.ret # 0
        /\ recs[Len(recs)].name = "Foo"
        /\ recs[Len(recs)].version = "1.0.0"

\* C11 amended: the scenario source carries no description, so convertPlugin rejects
\* it naming exactly the description; the same source with a "description" key in
\* the JSON assembles into a record with name "Foo", version "1.0.0", started false.
C11_LegacyNeedsDescription ==
    /\ (conv.phase # "input" /\ conv.src = Scenario1) =>
           /\ conv.phase = "rejected" /\ conv.exc = "Incomplete"
           /\ conv.missing = <<"description">>
           /\ conv.ret = 0
    /\ (conv.phase = "resolved" /\ conv.src = [Scenario1 EXCEPT !.description = "d"]) =>
           /\ conv.ret = Len(recs)
           /\ recs[conv.ret].name = "Foo"
           /\ recs[conv.ret].version = "1.0.0"
           /\ ~recs[conv.ret].started

\* the scenario source has been handed to convertPlugin and was rejected
C11_Witness ==
    /\ conv.src = Scenario1
    /\ conv.phase = "rejected"
    /\ queuedPlugins # <<>>

\* the source is evaluated without an error and its export is looked at
ExportResolved ==
    /\ conv.phase \in {"rejected", "resolved", "registered"}
    /\ conv.src.metaOk /\ conv.src.evalMode = "ok"

\* C24 as stated: the value instantiated is the property of the export object named
\* like the plugin if present, else its `default` property, else the export itself,
\* also for an export object that has neither property.
C24_ExportItselfAsFallback ==
    ExportResolved =>
        conv.resolved =
            IF conv.src.exportShape = "object" /\ "byName" \in conv.src.exportProps
            THEN "byName"
            ELSE IF conv.src.exportShape = "object" /\ "default" \in conv.src.exportProps
            THEN "default"
            ELSE "self"

\* C24 amended: an export that is a class or a function is itself instantiated; of an
\* export object the property named like the plugin is instantiated if present, else
\* its `default` property; with neither, nothing is instantiated and convertPlugin
\* rejects with a TypeError.
C24_ObjectExportNeedsProperty ==
    ExportResolved =>
        /\ conv.src.exportShape # "object" => conv.resolved = "self"
        /\ conv.src.exportShape = "object" =>
               conv.resolved =
                   IF "byName" \in conv.src.exportProps THEN "byName"
                   ELSE IF "default" \in conv.src.exportProps THEN "default"
                   ELSE "undefined"
        /\ conv.resolved = "undefined" =>
               /\ conv.phase = "rejected" /\ conv.exc = "TypeError"
               /\ \A r \in DOMAIN recs : recs[r].instFrom = ""
        /\ conv.phase \in {"resolved", "registered"} =>
               recs[conv.ret].instFrom = conv.resolved

\* an export object carrying both properties was resolved by the plugin name, and
\* the instance was made from that property
C24_Witness ==
    /\ conv.phase = "resolved"
    /\ conv.src.exportShape = "object" /\ conv.src.exportProps = {"byName", "default"}
    /\ conv.resolved = "byName"
    /\ recs[conv.ret].instFrom = "byName"

\* C21: once convertPlugin has resolved or rejected (parse error, evaluation or
\* instantiation error, load() error, missing metadata), no entry for the file
\* remains in queuedPlugins.
C21_QueueEmptyAfterSettlement ==
    conv.phase \in {"rejected", "resolved", "registered"} =>
        \A i \in DOMAIN queuedPlugins : recs[queuedPlugins[i]].filename # FileA

----------------------------------------------------------------------------
(* The startup scan over folders whose files may carry the same name *)

DupContents ==
    {Plain(n, v) : n \in {"Foo", "Nat", "Nat-BD"}, v \in {"1.0.0", "1.1.0"}}

InitDup ==
    /\ recs = <<>>
    /\ plugins = [n \in NativePlugins |-> NativeEntry]
    /\ enabled = [n \in PluginNames |-> FALSE]
    /\ pluginsStatus \in PersistedStatus
    /\ GeneratedPlugins = <<>>
    /\ queuedPlugins = <<>>
    /\ notices = 0
    /\ files \in [FileNames -> DupContents]
    /\ mtime = [f \in FileNames |-> Ms(0, 1)]
    /\ micro = <<>>
    /\ timers = {}
    /\ ops = <<>>
    /\ scanned = FALSE
    /\ running = FALSE
    /\ pageReloaded = FALSE
    /\ writes = 0
    /\ pendingChangelogs = {}
    /\ conv = IdleConv
    /\ sigs = IdleSigs
    /\ wait = IdleWait
    /\ FacadeIdle

NextDup == StartScan \/ RunAdd

SpecDup == InitDup /\ [][NextDup]_vars

\* C6: after convertPlugin(..., TRUE) and addCustomPlugin, the registered legacy
\* plugins have pairwise different names, each is the registry's entry under its
\* name, and no entry that was in the registry is overwritten or dropped.
C6_RegisteredNamesUnique ==
    /\ \A n \in NativePlugins : Lookup(Heap(CalmEnv), n) = NativeEntry
    /\ \A i, j \in DOMAIN GeneratedPlugins :
           i # j => recs[GeneratedPlugins[i]].name # recs[GeneratedPlugins[j]].name
    /\ \A i \in DOMAIN GeneratedPlugins :
           Lookup(Heap(CalmEnv), recs[GeneratedPlugins[i]].name) = GeneratedPlugins[i]

----------------------------------------------------------------------------
(* removeAllCustomPlugins and the restart by reloadCompatLayer *)

Last(s) == s[Len(s)]

\* this step is reload() entering reloadCompatLayer: removeAllCustomPlugins runs
AllBegins ==
    \E o \in DOMAIN ops' :
        /\ ops'[o].log # <<>> /\ Last(ops'[o].log) = "all"
        /\ o \in DOMAIN ops => ops[o].log # ops'[o].log

\* this step is reloadCompatLayer resolving, after the registrations it queued
AllEnds ==
    \E o \in DOMAIN ops :
        /\ "all:ok" \in Range(ops'[o].log)
        /\ "all:ok" \notin Range(ops[o].log)

----------------------------------------------------------------------------
(* The startup scan and reload-all over folders with plugins that fail to assemble *)

\* what the two files of the folder may hold: sources that assemble and sources that
\* fail in the meta block, at evaluation, in the constructor, in load(), or for a
\* missing description
ScanContents(f) ==
    IF f = FileA
    THEN {FooV1, FooBroken, Missing,
          [FooV1 EXCEPT !.metaOk = FALSE],
          [FooV1 EXCEPT !.description = ""],
          [FooV1 EXCEPT !.loadThrows = TRUE]}
    ELSE {NatV1,
          [NatV1 EXCEPT !.ctorThrows = TRUE],
          [NatV1 EXCEPT !.evalMode = "syntaxError"]}

\* an identifier no plugin answers to: reload() goes straight to reloadCompatLayer
UnknownId == "Gone"

InitScan ==
    /\ recs = <<>>
    /\ plugins = [n \in NativePlugins |-> NativeEntry]
    /\ enabled = [n \in PluginNames |-> FALSE]
    /\ pluginsStatus \in PersistedStatus
    /\ GeneratedPlugins = <<>>
    /\ queuedPlugins = <<>>
    /\ notices = 0
    /\ \E a \in ScanContents(FileA), b \in ScanContents(FileB) :
           files = [f \in FileNames |-> IF f = FileA THEN a ELSE b]
    /\ mtime = [f \in FileNames |-> Ms(0, 1)]
    /\ micro = <<>>
    /\ timers = {}
    /\ ops = <<>>
    /\ scanned = FALSE
    /\ running = FALSE
    /\ pageReloaded = FALSE
    /\ writes = 0
    /\ pendingChangelogs = {}
    /\ conv = IdleConv
    /\ sigs = IdleSigs
    /\ wait = IdleWait
    /\ FacadeIdle

NextScan ==
    \/ StartScan
    \/ RunAdd
    \/ CallReload(UnknownId)
    \/ EndScript
    \/ RunAllWait
    \/ \E o \in DOMAIN ops : \E fsFails \in BOOLEAN : TimerFire(o, fsFails)
    \/ RunAllDone
    \/ RunAllFail

SpecScan == InitScan /\ [][NextScan]_vars

\* the source assembles: convertPlugin resolves for it
Assembles(src) ==
    /\ src.exists /\ src.metaOk /\ src.evalMode = "ok" /\ ~src.ctorThrows /\ ~src.loadThrows
    /\ src.name # "" /\ src.version # "" /\ src.description # ""

\* the record is complete: an instance was made and the required fields are there
Complete(rec) ==
    /\ rec.instFrom # ""
    /\ rec.name # "" /\ rec.version # "" /\ rec.description # ""

\* the startup scan, and every reload-all that listed the folder, is over
ScansOver ==
    /\ scanned /\ ~running /\ micro = <<>> /\ timers = {}
    /\ \A o \in DOMAIN ops : ops[o].log = <<"all", "all:ok">>

\* C25: in the startup scan and in reload-all every plugin file is assembled exactly
\* once; a plugin whose assembly fails is not registered, and every other file of the
\* folder is still assembled and registered.
C25_ScanAssemblesEachOnce ==
    /\ [][Len(recs') > Len(recs) =>
            \A f \in FileNames :
                Cardinality({r \in (Len(recs) + 1)..Len(recs') : recs'[r].filename = f})
                    = IF files[f].exists /\ files[f].metaOk THEN 1 ELSE 0]_vars
    /\ [](\A i \in DOMAIN GeneratedPlugins : Complete(recs[GeneratedPlugins[i]]))
    /\ [](\A n \in DOMAIN plugins : IsRecord(plugins[n]) => Complete(recs[plugins[n]]))
    /\ [](ScansOver =>
            \A f \in FileNames :
                Assembles(files[f]) <=>
                    \E i \in DOMAIN GeneratedPlugins :
                        /\ recs[GeneratedPlugins[i]].filename = f
                        /\ Lookup(Heap(CalmEnv), recs[GeneratedPlugins[i]].name)
                               \in Range(GeneratedPlugins))

\* a reload-all is over in a folder whose first file fails in its constructor, and
\* the plugin of the second file is registered
C25_Witness ==
    /\ ScansOver /\ Len(ops) = 1
    /\ files[FileA] = FooBroken /\ files[FileB] = NatV1
    /\ Len(GeneratedPlugins) = 1
    /\ recs[GeneratedPlugins[1]].filename = FileB

----------------------------------------------------------------------------
(* new BdApi(label): the scoped API instances *)

\* constructions of the scoped API in one run
MaxConstructs == 3

\* no argument given to the constructor
NoLabel == "<no label>"
\* properties every plain object inherits from Object.prototype
ObjectPrototypeKeys == {"constructor", "__proto__"}
Labels == {"Foo", "Bar", ""} \cup ObjectPrototypeKeys

GlobalApi == [kind |-> "global", id |-> 0, name |-> ""]
Instance(i) == [kind |-> "instance", id |-> i, name |-> ""]
Inherited(key) == [kind |-> "inherited", id |-> 0, name |-> key]
NothingThere == [kind |-> "undefined", id |-> 0, name |-> ""]

\* getGlobalApi().labelsOfInstancedAPI[label] on the plain object of line 1647
lookupLabel(registry, label) ==
    IF label \in DOMAIN registry THEN Instance(registry[label])
    ELSE IF label \in ObjectPrototypeKeys THEN Inherited(label)
    ELSE NothingThere

\* new BdApiReImplementationInstance(label): the value the expression yields
BdApiConstructor(b, label) ==
    IF label # NoLabel /\ label # ""
    THEN LET found == lookupLabel(b.labelsOfInstancedAPI, label)
         IN IF found # NothingThere
            THEN [b EXCEPT !.returned = Append(@, [label |-> label, value |-> found])]
            ELSE LET i == Len(b.instances) + 1
                 IN [b EXCEPT !.instances = Append(@, [targetPlugin |-> label]),
                              !.labelsOfInstancedAPI = Put(@, label, i),
                              !.returned = Append(@, [label |-> label, value |-> Instance(i)])]
    ELSE [b EXCEPT !.returned = Append(@, [label |-> label, value |-> GlobalApi])]

Construct(label) ==
    /\ bdapi.phase = "started"
    /\ Len(bdapi.returned) < MaxConstructs
    /\ bdapi' = BdApiConstructor(bdapi, label)
    /\ UNCHANGED <<lifeVars, conv, sigs, wait, req, emitter, data, modal, mangled, patcher, layerVars>>

\* the layer is started: createGlobalBdApi() has made the global instance, whose
\* labelsOfInstancedAPI is {}
InitApi ==
    /\ InitLife /\ pluginsStatus = <<>>
    /\ conv = IdleConv /\ sigs = IdleSigs /\ wait = IdleWait
    /\ req = Idle /\ emitter = Idle /\ data = Idle
    /\ modal = Idle /\ mangled = Idle /\ patcher = Idle
    /\ changelog = Idle /\ boot = Idle /\ layer = Idle
    /\ bdapi = [phase |-> "started", labelsOfInstancedAPI |-> <<>>,
                instances |-> <<>>, returned |-> <<>>]

NextApi == \E label \in Labels \cup {NoLabel} : Construct(label)

SpecApi == InitApi /\ [][NextApi]_vars

\* C12: every construction with a label returns a scoped instance made for that
\* label, the identical one each time; at most one instance per label is stored,
\* distinct labels give distinct instances, and a construction without a label
\* returns the shared global instance.
C12_SingletonPerLabel ==
    bdapi.phase = "started" =>
        /\ \A i \in DOMAIN bdapi.returned :
               LET r == bdapi.returned[i]
               IN IF r.label \in {NoLabel, ""}
                  THEN r.value = GlobalApi
                  ELSE /\ r.value.kind = "instance"
                       /\ bdapi.instances[r.value.id].targetPlugin = r.label
        /\ \A i, j \in DOMAIN bdapi.returned :
               LET a == bdapi.returned[i]
                   b == bdapi.returned[j]
               IN (a.label \notin {NoLabel, ""} /\ b.label \notin {NoLabel, ""}) =>
                       ((a.label = b.label) <=> (a.value = b.value))
        /\ \A i, j \in DOMAIN bdapi.instances :
               i # j => bdapi.instances[i].targetPlugin # bdapi.instances[j].targetPlugin

----------------------------------------------------------------------------
(* window.require = FakeRequireRedirect *)

\* calls of require in one run
MaxRequires == 2

\* the keys of ReImplementationObject, in source order
ReImplementationKeys ==
    {"fs", "path", "https", "request_", "request", "events", "electron", "crypto", "process"}

RequireNames ==
    ReImplementationKeys \cup ObjectPrototypeKeys \cup {"child_process", "http", "vm", ""}

\* ReImplementationObject[name]: an own key (request is a getter that depends on the
\* enableExperimentalRequestPolyfills setting), an inherited property, or undefined
FakeRequireRedirect(name, polyfills) ==
    IF name = "request"
    THEN [threw |-> FALSE, kind |-> IF polyfills THEN "shim" ELSE "undefined", of |-> "request_"]
    ELSE IF name \in ReImplementationKeys
    THEN [threw |-> FALSE, kind |-> "shim", of |-> name]
    ELSE IF name \in ObjectPrototypeKeys
    THEN [threw |-> FALSE, kind |-> "inherited", of |-> name]
    ELSE [threw |-> FALSE, kind |-> "undefined", of |-> name]

Require(name) ==
    /\ req.phase = "ready"
    /\ Len(req.calls) < MaxRequires
    /\ req' = [req EXCEPT !.calls = Append(@, [name |-> name,
                                               result |-> FakeRequireRedirect(name, req.polyfills)])]
    /\ UNCHANGED <<lifeVars, conv, sigs, wait, bdapi, emitter, data, modal, mangled, patcher, layerVars>>

InitRequire ==
    /\ InitLife /\ pluginsStatus = <<>>
    /\ conv = IdleConv /\ sigs = IdleSigs /\ wait = IdleWait
    /\ bdapi = Idle /\ emitter = Idle /\ data = Idle
    /\ modal = Idle /\ mangled = Idle /\ patcher = Idle
    /\ changelog = Idle /\ boot = Idle /\ layer = Idle
    /\ req \in [phase : {"ready"}, polyfills : BOOLEAN, calls : {<<>>}]

NextRequire == \E name \in RequireNames : Require(name)

SpecRequire == InitRequire /\ [][NextRequire]_vars

\* the names the specification lets require resolve
AllowList == {"fs", "path", "events", "electron", "crypto", "process", "https"}

\* C13: require(name) returns a shim exactly for the names of the allow-list and
\* throws for every other name, among them names of inherited object properties
\* and internal keys.
C13_RequireAllowList ==
    req.phase = "ready" =>
        \A i \in DOMAIN req.calls :
            LET c == req.calls[i]
            IN IF c.name \in AllowList
               THEN ~c.result.threw /\ c.result.kind = "shim" /\ c.result.of = c.name
               ELSE c.result.threw

----------------------------------------------------------------------------
(* FakeEventEmitter, and the request emitter of the https get shim *)

\* calls of emit in one run
MaxEmits == 2

\* the listeners: one throws, one removes "plain" from the event it is called for,
\* one just returns
Listeners == {"thrower", "remover", "plain"}
EventNames == {"error"}
\* what Array.from yields for an inherited, non-Set value: one slot, not callable
NotCallable == "<undefined>"

\* events[event].add(callback) on a Set: insertion order, no duplicates
SetAdd(set, l) == IF l \in Range(set) THEN set ELSE Append(set, l)
\* events[event].delete(callback)
SetDelete(set, l) == SelectSeq(set, LAMBDA x : x # l)

\* on(event, callback); events is a plain object, so an inherited name is no Set
on(e, event, l) ==
    IF event \in ObjectPrototypeKeys THEN [e EXCEPT !.onThrew = TRUE]
    ELSE IF event \in DOMAIN e.events
    THEN [e EXCEPT !.events[event] = SetAdd(@, l)]
    ELSE [e EXCEPT !.events = Put(@, event, <<l>>)]

\* off(event, callback)
off(e, event, l) ==
    IF event \in DOMAIN e.events THEN [e EXCEPT !.events[event] = SetDelete(@, l)] ELSE e

\* Array.from(this.events[event])
snapshotOf(e, event) ==
    IF event \in DOMAIN e.events THEN e.events[event]
    ELSE IF event = "constructor" THEN <<NotCallable>>
    ELSE <<>>

\* one listener runs: what it does to the emitter, and whether it throws
runListener(e, event, l) ==
    CASE l = "remover" -> [after |-> off(e, event, "plain"), throws |-> FALSE]
      [] l = "thrower" -> [after |-> e, throws |-> TRUE]
      [] l = NotCallable -> [after |-> e, throws |-> TRUE]
      [] OTHER -> [after |-> e, throws |-> FALSE]

RECURSIVE emitFrom_uncaught(_, _, _, _)
\* the loop of emit without the try/catch around the listener
emitFrom_uncaught(e, event, snapshot, i) ==
    IF i > Len(snapshot) THEN e
    ELSE LET l == snapshot[i]
             r == runListener(e, event, l)
             e1 == IF l = NotCallable THEN r.after
                   ELSE [r.after EXCEPT !.invoked = Append(@, l)]
         IN IF r.throws THEN [e1 EXCEPT !.emitThrew = TRUE]
            ELSE emitFrom_uncaught(e1, event, snapshot, i + 1)

RECURSIVE emitFrom(_, _, _, _)
\* for (const [index, listener] of snapshot.entries()) try { listener(...args) } catch { log }
emitFrom(e, event, snapshot, i) ==
    IF i > Len(snapshot) THEN e
    ELSE LET l == snapshot[i]
             r == runListener(e, event, l)
             e1 == IF l = NotCallable THEN r.after
                   ELSE [r.after EXCEPT !.invoked = Append(@, l)]
         IN emitFrom([e1 EXCEPT !.logged = @ + (IF r.throws THEN 1 ELSE 0)],
                     event, snapshot, i + 1)

\* emit(event, ...args)
emit(e, event) ==
    LET start == [e EXCEPT !.emits = @ + 1, !.event = event, !.invoked = <<>>,
                           !.logged = 0,
                           !.atStart = IF event \in DOMAIN e.events THEN e.events[event]
                                       ELSE <<>>]
        snapshot == snapshotOf(e, event)
    IN IF snapshot = <<>> THEN start ELSE emitFrom(start, event, snapshot, 1)

EmitterFrame == <<lifeVars, conv, sigs, wait, bdapi, req, data, modal, mangled, patcher, layerVars>>

On(event, l) ==
    /\ emitter.phase = "made"
    /\ emitter' = on(emitter, event, l)
    /\ UNCHANGED EmitterFrame

Off(event, l) ==
    /\ emitter.phase = "made"
    /\ emitter' = off(emitter, event, l)
    /\ UNCHANGED EmitterFrame

Emit(event) ==
    /\ emitter.phase = "made"
    /\ emitter.emits < MaxEmits
    /\ emitter' = emit(emitter, event)
    /\ UNCHANGED EmitterFrame

\* fetchResponse.catch(error => { if (requestEmitter.events.error?.size > 0) emit("error") })
httpsGetCatch(e) ==
    LET size == IF "error" \in DOMAIN e.events THEN Len(e.events["error"]) ELSE 0
    IN IF size > 0 THEN emit([e EXCEPT !.fetch = "failed, emitted"], "error")
       ELSE [e EXCEPT !.fetch = "failed, silent"]

\* the fetch behind https.get rejects
FetchFails ==
    /\ emitter.phase = "made"
    /\ emitter.fetch = "pending"
    /\ emitter.emits < MaxEmits
    /\ emitter' = [httpsGetCatch(emitter) EXCEPT
                      !.listeningAtFailure = \E l \in Listeners :
                            l \in Range(snapshotOf(emitter, "error"))]
    /\ UNCHANGED EmitterFrame

InitEmit ==
    /\ InitLife /\ pluginsStatus = <<>>
    /\ conv = IdleConv /\ sigs = IdleSigs /\ wait = IdleWait
    /\ bdapi = Idle /\ req = Idle /\ data = Idle
    /\ modal = Idle /\ mangled = Idle /\ patcher = Idle
    /\ changelog = Idle /\ boot = Idle /\ layer = Idle
    /\ emitter = [phase |-> "made", events |-> <<>>, emits |-> 0, event |-> "",
                  atStart |-> <<>>, invoked |-> <<>>, logged |-> 0,
                  emitThrew |-> FALSE, onThrew |-> FALSE,
                  fetch |-> "pending", listeningAtFailure |-> FALSE]

NextEmit ==
    \/ \E event \in EventNames \cup {"constructor"} : \E l \in Listeners : On(event, l)
    \/ \E event \in EventNames : \E l \in Listeners : Off(event, l)
    \/ \E event \in EventNames \cup {"constructor"} : Emit(event)
    \/ FetchFails

SpecEmit == InitEmit /\ [][NextEmit]_vars

\* C14: emit invokes every listener that was registered for the event when the emit
\* started, in registration order and once each, also after a listener threw; emit
\* never throws; with no listener registered it invokes nothing; and the https get
\* shim emits "error" on its request emitter only when an "error" listener is
\* registered at the moment the fetch fails.
C14_EmitDeliversToAll ==
    emitter.phase = "made" =>
        /\ ~emitter.emitThrew
        /\ emitter.emits > 0 => emitter.invoked = emitter.atStart
        /\ (emitter.fetch = "failed, emitted") <=>
               (emitter.fetch # "pending" /\ emitter.listeningAtFailure)
        /\ emitter.fetch = "failed, silent" => ~emitter.listeningAtFailure

\* an emit whose first listener threw and whose second removed the third
C14_Witness ==
    /\ emitter.phase = "made" /\ emitter.emits > 0
    /\ emitter.atStart = <<"thrower", "remover", "plain">>
    /\ emitter.invoked = emitter.atStart
    /\ emitter.logged = 1
    /\ "plain" \notin Range(emitter.events[emitter.event])

----------------------------------------------------------------------------
(* DataHolder and DataWrapper: the cache per label and the config files *)

\* calls of load and save in one run
MaxDataCalls == 3

DataLabels == {"Foo", "Bar"}
\* the second argument of load and save; "" is falsy
DataKeys == {"k1", "k2", "constructor", ""}
\* falsy data, such as false or 0
Falsy == "false"
DataValues == {"v1", "v2", Falsy}
NotCached == [kind |-> "undefined", obj |-> <<>>]
Cached(obj) == [kind |-> "object", obj |-> obj]
NoFile == [kind |-> "absent", obj |-> <<>>]
Corrupt == [kind |-> "corrupt", obj |-> <<>>]

\* JSON.stringify(value, null, 4): the text of an object of string values
stringify(obj) == [kind |-> "json", obj |-> obj]

\* JSON.parse(text): throws on text that is no JSON
parse(text) ==
    IF text.kind = "json" THEN [threw |-> FALSE, value |-> Cached(text.obj)]
    ELSE [threw |-> TRUE, value |-> NotCached]

\* obj[key] on a plain object: own property, inherited property, or undefined
getProperty(obj, key) ==
    IF key \in DOMAIN obj THEN obj[key]
    ELSE IF key \in ObjectPrototypeKeys THEN "<inherited " \o key \o ">"
    ELSE "<undefined>"

\* latestDataCheck that lets the parse error out
latestDataCheck_unguarded(d, key) ==
    IF d.pluginData[key] # NotCached THEN d
    ELSE IF d.files[key] = NoFile THEN [d EXCEPT !.pluginData[key] = Cached(<<>>)]
    ELSE LET parsed == parse(d.files[key])
             d1 == [d EXCEPT !.reads[key] = @ + 1]
         IN IF parsed.threw THEN [d1 EXCEPT !.threw = TRUE]
            ELSE [d1 EXCEPT !.pluginData[key] = parsed.value]

latestDataCheck(d, key) ==
    IF d.pluginData[key] # NotCached THEN d
    ELSE IF d.files[key] = NoFile THEN [d EXCEPT !.pluginData[key] = Cached(<<>>)]
    ELSE LET parsed == parse(d.files[key])
             d1 == [d EXCEPT !.reads[key] = @ + 1]
         IN IF parsed.threw THEN [d1 EXCEPT !.pluginData[key] = Cached(<<>>),
                                            !.resets = @ \cup {key}]
            ELSE [d1 EXCEPT !.pluginData[key] = parsed.value]

\* DataHolder.load(key, value)
load(d, key, value) ==
    IF value = "" THEN [d EXCEPT !.result = "<undefined>"]
    ELSE LET d1 == latestDataCheck(d, key)
         IN IF d1.threw THEN d1
            ELSE [d1 EXCEPT !.result = getProperty(d1.pluginData[key].obj, value)]

\* DataHolder.save(key, value, data)
save(d, key, value, dataToSave) ==
    IF value = "" \/ dataToSave = Falsy THEN d
    ELSE LET d1 == latestDataCheck(d, key)
         IN IF d1.threw THEN d1
            ELSE LET obj == Put(d1.pluginData[key].obj, value, dataToSave)
                 IN [d1 EXCEPT !.pluginData[key] = Cached(obj),
                               !.files[key] = stringify(obj)]

DataFrame == <<lifeVars, conv, sigs, wait, bdapi, req, emitter, modal, mangled, patcher, layerVars>>

\* BdApi.Data.load(label, key), or new BdApi(label).Data.load(key)
Load(label, key) ==
    /\ data.phase = "ready"
    /\ data.calls < MaxDataCalls
    /\ data' = [load(data, label, key) EXCEPT
                    !.calls = @ + 1,
                    !.last = [op |-> "load", label |-> label, key |-> key,
                              first |-> data.pluginData[label] = NotCached]]
    /\ UNCHANGED DataFrame

\* BdApi.Data.save(label, key, value), or new BdApi(label).Data.save(key, value)
Save(label, key, value) ==
    /\ data.phase = "ready"
    /\ data.calls < MaxDataCalls
    /\ key # "constructor"
    /\ data' = [save(data, label, key, value) EXCEPT
                    !.calls = @ + 1,
                    !.result = "<undefined>",
                    !.saved[label] = IF key = "" THEN @ ELSE Put(@, key, value),
                    !.last = [op |-> "save", label |-> label, key |-> key,
                              first |-> data.pluginData[label] = NotCached]]
    /\ UNCHANGED DataFrame

InitData ==
    /\ InitLife /\ pluginsStatus = <<>>
    /\ conv = IdleConv /\ sigs = IdleSigs /\ wait = IdleWait
    /\ bdapi = Idle /\ req = Idle /\ emitter = Idle
    /\ modal = Idle /\ mangled = Idle /\ patcher = Idle
    /\ changelog = Idle /\ boot = Idle /\ layer = Idle
    /\ data \in [phase : {"ready"},
                 pluginData : {[l \in DataLabels |-> NotCached]},
                 files : [DataLabels -> {NoFile, Corrupt, stringify("k1" :> "v1")}],
                 initial : [DataLabels -> {NoFile, Corrupt, stringify("k1" :> "v1")}],
                 reads : {[l \in DataLabels |-> 0]},
                 resets : {{}},
                 saved : {[l \in DataLabels |-> <<>>]},
                 calls : {0}, threw : {FALSE}, result : {"<undefined>"},
                 last : {[op |-> "none", label |-> "", key |-> "", first |-> FALSE]}]
    /\ data.initial = data.files

NextData ==
    \/ \E label \in DataLabels : \E key \in DataKeys : Load(label, key)
    \/ \E label \in DataLabels : \E key \in DataKeys : \E value \in DataValues :
            Save(label, key, value)

SpecData == InitData /\ [][NextData]_vars

\* C15: after any sequence of save calls for a label, through the global facade or
\* a scoped wrapper, the label's config file is the indented JSON of the cache for
\* that label and holds the latest value of every key saved so far.
C15_FileHoldsLatestSaves ==
    data.phase = "ready" =>
        \A label \in DataLabels :
            data.saved[label] # <<>> =>
                /\ data.files[label] = stringify(data.pluginData[label].obj)
                /\ \A key \in DOMAIN data.saved[label] :
                       /\ key \in DOMAIN data.files[label].obj
                       /\ data.files[label].obj[key] = data.saved[label][key]

\* C30 as stated: for every label, non-empty key and value v (false, 0, the empty
\* string and null included), a load(key) that follows save(key, v) on the same
\* label returns v.
C30_LoadReturnsSaved ==
    [][(/\ data.phase = "ready" /\ data.last.op = "save" /\ data.last.key # ""
        /\ data'.last.op = "load"
        /\ data'.last.label = data.last.label /\ data'.last.key = data.last.key)
       => data'.result = data.saved[data.last.label][data.last.key]]_vars

\* a load has just followed the save of a falsy value under the same label and key
C30_FalsyLoaded ==
    /\ data.phase = "ready" /\ data.last.op = "load" /\ data.last.key = "k1"
    /\ data.calls = 2
    /\ "k1" \in DOMAIN data.saved[data.last.label]
    /\ data.saved[data.last.label]["k1"] = Falsy
    /\ data.result # Falsy

\* the first access to a label whose config file is no JSON has just been a load
FirstLoadOfCorrupt ==
    /\ data.phase = "ready"
    /\ data.last.op = "load" /\ data.last.first /\ data.last.key # ""
    /\ data.initial[data.last.label] = Corrupt

MaxModals == 2

Null == "<null>"
NoButton == "<no button>"
NotGiven == "<undefined>"
CancelTexts == {NotGiven, Null, "No"}
OnCloseKinds == {"none", "returns", "throws"}
Outcomes == {"returns", "throws"}

\* a ?? b
Coalesce(a, b) == IF a \in {NotGiven, Null} THEN b ELSE a

\* the label of the cancel button BD_CM_Inner renders for its props
footerCancel(props) ==
    IF props.cancelText = Null THEN NoButton ELSE Coalesce(props.cancelText, "Cancel")

\* the props BD_CM_open hands to BD_CM_Inner
innerProps(options) == [cancelText |-> Coalesce(options.cancelText, "Cancel")]

BD_CM_open(m, via, options) ==
    LET key == m.next IN
    [m EXCEPT !.registry = Put(@, key, [onClose |-> options.onClose]),
              !.props = Put(@, key, innerProps(options)),
              !.asked = Put(@, key, [via |-> via, cancelText |-> options.cancelText]),
              !.busy = Put(@, key, FALSE),
              !.handlers = Put(@, key, options.handlers),
              !.closes = Put(@, key, 0),
              !.next = key + 1]

BD_CM_close(m, key) ==
    IF key \notin DOMAIN m.registry THEN m
    ELSE [m EXCEPT !.registry = Delete(@, key),
                   !.props = Delete(@, key),
                   !.busy = Delete(@, key),
                   !.closes[key] = IF m.registry[key].onClose = "none" THEN @ ELSE @ + 1]

\* setBusy on a component that may be gone
setBusy(m, key, b) ==
    IF key \in DOMAIN m.busy THEN [m EXCEPT !.busy[key] = b] ELSE m

\* doConfirm / doCancel up to the await of the handler
beginHandler(m, key, which) ==
    IF m.busy[key] THEN m
    ELSE [setBusy(m, key, TRUE) EXCEPT !.inflight = Put(@, key, which)]

\* doConfirm after the await: close on success, swallow a throw, then clear busy
doConfirm(m, key, outcome) ==
    LET m1 == [m EXCEPT !.inflight = Delete(@, key)]
        m2 == IF outcome = "returns" THEN BD_CM_close(m1, key) ELSE m1
    IN  setBusy(m2, key, FALSE)

\* doCancel after the await: the finally block alone, whatever the handler did
doCancel(m, key, outcome) ==
    LET m1 == [m EXCEPT !.inflight = Delete(@, key)]
    IN  BD_CM_close(setBusy(m1, key, FALSE), key)

RECURSIVE BD_CM_closeAll(_, _)
BD_CM_closeAll(m, keys) ==
    IF keys = {} THEN m
    ELSE LET k == CHOOSE x \in keys : \A y \in keys : x <= y
         IN  BD_CM_closeAll(BD_CM_close(m, k), keys \ {k})

ModalFrame == UNCHANGED <<lifeVars, conv, sigs, wait, bdapi, req, emitter, data, mangled, patcher, layerVars>>

NoEvent == [op |-> "none"]

Alert ==
    /\ modal.phase = "ready" /\ modal.next <= MaxModals
    /\ modal' = [BD_CM_open(modal, "alert", [cancelText |-> Null, onClose |-> "none", handlers |-> "none"])
                    EXCEPT !.last = NoEvent]
    /\ ModalFrame

ShowConfirmationModal(cancelText, onClose) ==
    /\ modal.phase = "ready" /\ modal.next <= MaxModals
    /\ modal' = [BD_CM_open(modal, "show", [cancelText |-> cancelText, onClose |-> onClose,
                              handlers |-> "given"])
                    EXCEPT !.last = NoEvent]
    /\ ModalFrame

\* a click on the confirm button, or Enter
Confirm(key) ==
    /\ modal.phase = "ready" /\ key \in DOMAIN modal.registry
    /\ modal' = [beginHandler(modal, key, "confirm") EXCEPT !.last = NoEvent]
    /\ ModalFrame

\* a click on the cancel button or the backdrop, or Escape
Cancel(key) ==
    /\ modal.phase = "ready" /\ key \in DOMAIN modal.registry
    /\ modal' = [beginHandler(modal, key, "cancel") EXCEPT !.last = NoEvent]
    /\ ModalFrame

\* the awaited handler returns or throws; a modal without handlers awaits undefined
HandlerSettles(key, outcome) ==
    /\ modal.phase = "ready" /\ key \in DOMAIN modal.inflight
    /\ modal.handlers[key] = "none" => outcome = "returns"
    /\ LET which == modal.inflight[key]
           m == IF which = "confirm" THEN doConfirm(modal, key, outcome)
                ELSE doCancel(modal, key, outcome)
       IN  modal' = [m EXCEPT !.last = [op |-> which, key |-> key, outcome |-> outcome,
                                        open |-> key \in DOMAIN modal.registry,
                                        closes |-> modal.closes[key]]]
    /\ ModalFrame

CloseConfirmationModal(key) ==
    /\ modal.phase = "ready" /\ key \in 1..MaxModals
    /\ modal' = [BD_CM_close(modal, key) EXCEPT !.last = NoEvent]
    /\ ModalFrame

CloseAllConfirmationModals ==
    /\ modal.phase = "ready" /\ modal.registry # <<>>
    /\ modal' = [BD_CM_closeAll(modal, DOMAIN modal.registry) EXCEPT !.last = NoEvent]
    /\ ModalFrame

InitModal ==
    /\ InitLife /\ pluginsStatus = <<>>
    /\ conv = IdleConv /\ sigs = IdleSigs /\ wait = IdleWait
    /\ bdapi = Idle /\ req = Idle /\ emitter = Idle /\ data = Idle
    /\ mangled = Idle /\ patcher = Idle
    /\ changelog = Idle /\ boot = Idle /\ layer = Idle
    /\ modal = [phase |-> "ready", registry |-> <<>>, props |-> <<>>, asked |-> <<>>,
                busy |-> <<>>, closes |-> <<>>, inflight |-> <<>>,
                handlers |-> <<>>, next |-> 1, last |-> NoEvent]

NextModal ==
    \/ Alert
    \/ \E cancelText \in CancelTexts, onClose \in OnCloseKinds :
            ShowConfirmationModal(cancelText, onClose)
    \/ \E key \in 1..MaxModals : Confirm(key)
    \/ \E key \in 1..MaxModals : Cancel(key)
    \/ \E key \in 1..MaxModals, outcome \in Outcomes : HandlerSettles(key, outcome)
    \/ \E key \in 1..MaxModals : CloseConfirmationModal(key)
    \/ CloseAllConfirmationModals

SpecModal == InitModal /\ [][NextModal]_vars

\* C17: when the onConfirm or the onCancel handler of an open confirmation modal
\* throws or rejects, the modal stays open: its entry remains in the modal registry
\* and its onClose has not been called.
C17_ThrowKeepsModalOpen ==
    (/\ modal.phase = "ready"
     /\ modal.last.op \in {"confirm", "cancel"}
     /\ modal.last.outcome = "throws"
     /\ modal.last.open) =>
        /\ modal.last.key \in DOMAIN modal.registry
        /\ modal.closes[modal.last.key] = modal.last.closes

\* C18: a modal opened by alert renders no cancel button; a modal opened by
\* showConfirmationModal without cancelText renders a cancel button labelled "Cancel".
C18_AlertHasNoCancelButton ==
    modal.phase = "ready" =>
        \A key \in DOMAIN modal.registry :
            /\ modal.asked[key].via = "alert" => footerCancel(modal.props[key]) = NoButton
            /\ (modal.asked[key].via = "show" /\ modal.asked[key].cancelText = NotGiven) =>
                   footerCancel(modal.props[key]) = "Cancel"

\* ---------------------------------------------------------------------------
\* WebpackHolder.getMangled
\* ---------------------------------------------------------------------------

MaxModuleKeys == 2
MaxLookups == 1

ModuleKeys == {"x", "y"}
ModuleValues == {"a", "b"}
PropertyKinds == {"data", "getter", "throwingGetter"}
Fields == {"f", "g"}
Validators == {"isA", "isB", "any", "throws"}

\* getModule found nothing
NoModule == <<>>

\* a module: its enumerable properties in key order, with distinct keys
Modules ==
    {m \in UNION {[1..n -> [key : ModuleKeys, value : ModuleValues, kind : PropertyKinds]] :
                     n \in 1..MaxModuleKeys} :
        \A i, j \in DOMAIN m : i # j => m[i].key # m[j].key}

Mappers == UNION {[fs -> Validators] : fs \in SUBSET Fields}

\* mappers[key](value) returned a truthy value; a mapper that throws is skipped
validate(validator, value) ==
    CASE validator = "isA" -> value = "a"
      [] validator = "isB" -> value = "b"
      [] validator = "any" -> TRUE
      [] OTHER -> FALSE

\* the copy of the module with getters resolved to plain values
writableModule(module) ==
    [i \in DOMAIN module |->
        [key |-> module[i].key,
         value |-> IF module[i].kind = "throwingGetter" THEN "<undefined>"
                   ELSE module[i].value]]

\* the inner loop over the mapper keys for one module value
mapOne(mappers, mapped, value) ==
    LET taken == {key \in DOMAIN mappers :
                     /\ key \notin DOMAIN mapped
                     /\ validate(mappers[key], value)}
    IN  [key \in DOMAIN mapped \cup taken |->
            IF key \in DOMAIN mapped THEN mapped[key] ELSE value]

\* the outer loop over the module keys, from index i
RECURSIVE mapFrom(_, _, _, _)
mapFrom(wm, mappers, mapped, i) ==
    IF i > Len(wm) THEN mapped
    ELSE mapFrom(wm, mappers, mapOne(mappers, mapped, wm[i].value), i + 1)

\* every mapper key exists on the result
ensureKeys(mappers, mapped) ==
    [key \in DOMAIN mappers \cup DOMAIN mapped |->
        IF key \in DOMAIN mapped THEN mapped[key] ELSE "<undefined>"]

getMangled(module, mappers) ==
    IF module = NoModule THEN <<>>
    ELSE ensureKeys(mappers, mapFrom(writableModule(module), mappers, <<>>, 1))

GetMangled(module, mappers) ==
    /\ mangled.phase = "ready" /\ mangled.calls < MaxLookups
    /\ mangled' = [mangled EXCEPT !.calls = @ + 1,
                                  !.module = module,
                                  !.mappers = mappers,
                                  !.returned = TRUE,
                                  !.result = getMangled(module, mappers)]
    /\ UNCHANGED <<lifeVars, conv, sigs, wait, bdapi, req, emitter, data, modal, patcher, layerVars>>

InitMangled ==
    /\ InitLife /\ pluginsStatus = <<>>
    /\ conv = IdleConv /\ sigs = IdleSigs /\ wait = IdleWait
    /\ bdapi = Idle /\ req = Idle /\ emitter = Idle /\ data = Idle
    /\ modal = Idle /\ patcher = Idle
    /\ changelog = Idle /\ boot = Idle /\ layer = Idle
    /\ mangled = [phase |-> "ready", calls |-> 0, module |-> NoModule, mappers |-> <<>>,
                  returned |-> FALSE, result |-> <<>>]

NextMangled ==
    \E module \in Modules \cup {NoModule}, mappers \in Mappers : GetMangled(module, mappers)

SpecMangled == InitMangled /\ [][NextMangled]_vars

\* the value of the first property of the module, in key order, that the validator
\* accepts; "<undefined>" when it accepts none
FirstAccepted(wm, validator) ==
    LET hits == {i \in DOMAIN wm : validate(validator, wm[i].value)}
    IN  IF hits = {} THEN "<undefined>"
        ELSE wm[CHOOSE i \in hits : \A j \in hits : i <= j].value

\* C19: the object returned by getMangled has every requested field as an own
\* property, also when no module matches the filter, and each field holds the first
\* module value, in module key order, accepted by its validator (undefined if none).
C19_EveryFieldPresent ==
    (mangled.phase = "ready" /\ mangled.returned) =>
        \A key \in DOMAIN mangled.mappers :
            /\ key \in DOMAIN mangled.result
            /\ mangled.module # NoModule =>
                   mangled.result[key] =
                       FirstAccepted(writableModule(mangled.module), mangled.mappers[key])

\* ---------------------------------------------------------------------------
\* The Patcher shim (PatchedPatcher) over the Patcher of stuffFromBD
\* ---------------------------------------------------------------------------

FunctionNames == {"m1", "m2"}
Callers == {"Foo", "Bar"}
GetterResults == {"function", "notAFunction", "throws"}

\* Object.getOwnPropertyDescriptor(module, functionName)
NoDescriptor ==
    [kind |-> "none", value |-> "<undefined>", get |-> "none", set |-> FALSE,
     writable |-> FALSE, configurable |-> FALSE]

DataDescriptor(value, configurable) ==
    [kind |-> "data", value |-> value, get |-> "none", set |-> FALSE,
     writable |-> TRUE, configurable |-> configurable]

AccessorDescriptor(get, set, configurable) ==
    [kind |-> "accessor", value |-> "<undefined>", get |-> get, set |-> set,
     writable |-> FALSE, configurable |-> configurable]

Descriptors ==
    {NoDescriptor}
        \cup {DataDescriptor("function", c) : c \in BOOLEAN}
        \cup {AccessorDescriptor(g, s, c) : g \in GetterResults, s \in BOOLEAN, c \in BOOLEAN}

\* desc && typeof desc.get === "function" && !desc.set
GetterOnly(desc) == desc.kind = "accessor" /\ ~desc.set

\* the try block of the shim: the getter may throw, and so may defineProperty on a
\* property that is not configurable; both are caught and leave the property alone
materialize(desc) ==
    IF ~GetterOnly(desc) THEN desc
    ELSE IF desc.get # "function" THEN desc
    ELSE IF ~desc.configurable THEN desc
    ELSE DataDescriptor("function", TRUE)

\* the original makePatch of the underlying Patcher: a patch record for the property
makePatchOriginal(p, functionName) ==
    [p EXCEPT !.patches = Put(@, functionName, {}),
              !.seen = Put(@, functionName, p.module[functionName])]

\* P.makePatch as replaced by the shim
makePatch(p, functionName) ==
    LET desc == p.module[functionName]
        p1 == [p EXCEPT !.module[functionName] = materialize(desc),
                        !.before = Put(@, functionName, desc)]
    IN  makePatchOriginal(p1, functionName)

\* Patcher.before / instead / after of the underlying Patcher: one patch per
\* property, made on first use, with one child per call
pushChildPatch(p, caller, functionName) ==
    LET p1 == IF functionName \in DOMAIN p.patches THEN p ELSE makePatch(p, functionName)
    IN  [p1 EXCEPT !.patches[functionName] = @ \cup {caller}]

\* Patcher.unpatchAll(caller) of the underlying Patcher: a patch left without
\* children is dropped
unpatchAll(p, caller) ==
    LET left == [f \in DOMAIN p.patches |-> p.patches[f] \ {caller}]
        kept == {f \in DOMAIN left : left[f] # {}}
    IN  [p EXCEPT !.patches = [f \in kept |-> left[f]]]

PatcherFrame == UNCHANGED <<lifeVars, conv, sigs, wait, bdapi, req, emitter, data, modal, mangled,
                          layerVars>>

Patch(caller, functionName) ==
    /\ patcher.phase = "ready"
    /\ patcher' = [pushChildPatch(patcher, caller, functionName)
                      EXCEPT !.last = [op |-> "patch", functionName |-> functionName,
                                       made |-> functionName \notin DOMAIN patcher.patches]]
    /\ PatcherFrame

UnpatchAll(caller) ==
    /\ patcher.phase = "ready"
    /\ \E f \in DOMAIN patcher.patches : caller \in patcher.patches[f]
    /\ patcher' = [unpatchAll(patcher, caller) EXCEPT !.last = [op |-> "unpatchAll",
                                                                functionName |-> "",
                                                                made |-> FALSE]]
    /\ PatcherFrame

InitPatcher ==
    /\ InitLife /\ pluginsStatus = <<>>
    /\ conv = IdleConv /\ sigs = IdleSigs /\ wait = IdleWait
    /\ bdapi = Idle /\ req = Idle /\ emitter = Idle /\ data = Idle
    /\ modal = Idle /\ mangled = Idle
    /\ changelog = Idle /\ boot = Idle /\ layer = Idle
    /\ \E module \in [FunctionNames -> Descriptors] :
           patcher = [phase |-> "ready", module |-> module, patches |-> <<>>,
                      before |-> <<>>, seen |-> <<>>,
                      last |-> [op |-> "none", functionName |-> "", made |-> FALSE]]

NextPatcher ==
    \/ \E caller \in Callers, functionName \in FunctionNames : Patch(caller, functionName)
    \/ \E caller \in Callers : UnpatchAll(caller)

SpecPatcher == InitPatcher /\ [][NextPatcher]_vars

\* C20: when a patch is installed on a property defined by a getter with no setter,
\* the property is a writable data property holding the getter's value by the time
\* the underlying makePatch runs; makePatch never runs on a getter-only property.
C20_GetterMaterializedFirst ==
    (patcher.phase = "ready" /\ patcher.last.op = "patch" /\ patcher.last.made) =>
        LET f == patcher.last.functionName IN
        /\ ~GetterOnly(patcher.seen[f])
        /\ GetterOnly(patcher.before[f]) =>
               /\ patcher.seen[f].kind = "data"
               /\ patcher.seen[f].writable
               /\ patcher.seen[f].value = patcher.before[f].get

\* ---------------------------------------------------------------------------
\* Changelog versions: vcIsNewer and vcParseChangelog
\* ---------------------------------------------------------------------------

\* components of a version string
MaxComponents == 3
\* lines of a changelog text
MaxLines == 3
\* times one text is parsed
MaxParses == 2

\* a version string is its components between the dots, each a string of digits
Digits == {<<0>>, <<1>>, <<9>>, <<1, 0>>}
VersionStrings == UNION {[1..n -> Digits] : n \in 1..MaxComponents}

\* Number(component) of a string of decimal digits
RECURSIVE Number(_)
Number(c) == IF c = <<>> THEN 0 ELSE 10 * Number(SubSeq(c, 1, Len(c) - 1)) + c[Len(c)]

\* v.split(".").map(Number)
splitVersion(v) == [i \in DOMAIN v |-> Number(v[i])]

\* a[i] || 0
OrZero(a, i) == IF i \in DOMAIN a THEN a[i] ELSE 0

Max(x, y) == IF x > y THEN x ELSE y
Min(x, y) == IF x < y THEN x ELSE y

\* the loop of vcIsNewer from index i up to the last index n
RECURSIVE isNewerFrom(_, _, _, _)
isNewerFrom(a, b, i, n) ==
    IF i > n THEN FALSE
    ELSE IF OrZero(a, i) > OrZero(b, i) THEN TRUE
    ELSE IF OrZero(a, i) < OrZero(b, i) THEN FALSE
    ELSE isNewerFrom(a, b, i + 1, n)

\* vcIsNewer comparing only the components both versions have
vcIsNewer_commonPrefix(v1, v2) ==
    isNewerFrom(splitVersion(v1), splitVersion(v2), 1, Min(Len(v1), Len(v2)))

vcIsNewer(v1, v2) ==
    isNewerFrom(splitVersion(v1), splitVersion(v2), 1, Max(Len(v1), Len(v2)))

\* the versions a changelog text names, and the two it is read between
V(a, b, c) == <<a, b, c>>
HeadVersions == {<<<<1>>, <<0>>>>, V(<<1>>, <<9>>, <<0>>), V(<<1>>, <<1, 0>>, <<0>>)}

\* a bullet text with the substrings its lower-case form contains
Text(raw, contains) == [raw |-> raw, contains |-> contains]
BulletTexts ==
    {Text("Fixed crash when adding", {"fix", "add"}),
     Text("Improved the fix-up", {"improv", "fix"}),
     Text("Added improvements", {"add", "improv"}),
     Text("Initial release", {"initial"}),
     Text("Updated strings", {"updat"}),
     Text("Misc", {}),
     Text("", {})}

\* lower.includes(sub)
includes(text, sub) == sub \in text.contains

\* one line of the text: "### <version>", "- <item>", or anything else
Heading(version) == [kind |-> "heading", version |-> version, item |-> Text("", {})]
Bullet(item) == [kind |-> "bullet", version |-> <<>>, item |-> item]
OtherLine == [kind |-> "other", version |-> <<>>, item |-> Text("", {})]
Lines == {Heading(v) : v \in HeadVersions} \cup {Bullet(t) : t \in BulletTexts} \cup {OtherLine}

\* the first loop: the version blocks of the text, from line i, with the block
\* being filled (cur = <<>>: no heading seen yet)
RECURSIVE blocksFrom(_, _, _, _, _)
blocksFrom(lines, i, versions, cur, items) ==
    IF i > Len(lines)
    THEN IF cur # <<>> THEN Append(versions, [version |-> cur[1], items |-> items])
         ELSE versions
    ELSE LET line == lines[i] IN
         IF line.kind = "heading"
         THEN blocksFrom(lines, i + 1,
                         IF cur # <<>>
                         THEN Append(versions, [version |-> cur[1], items |-> items])
                         ELSE versions,
                         <<line.version>>, <<>>)
         ELSE IF cur # <<>> /\ line.kind = "bullet" /\ line.item.raw # ""
         THEN blocksFrom(lines, i + 1, versions, cur, Append(items, line.item))
         ELSE blocksFrom(lines, i + 1, versions, cur, items)

\* versions.filter(v => vcIsNewer(v.version, from) && !vcIsNewer(v.version, to))
relevantOf(versions, from, to) ==
    SelectSeq(versions, LAMBDA v : vcIsNewer(v.version, from) /\ ~vcIsNewer(v.version, to))

\* the bucket of one item, with "add" looked for before "fix"
bucketOf_addedFirst(it) ==
    IF includes(it, "add") \/ includes(it, "initial") THEN "added"
    ELSE IF includes(it, "fix") THEN "fixed"
    ELSE IF includes(it, "improv") \/ includes(it, "updat") THEN "improved"
    ELSE "other"

\* the bucket of one item
bucketOf(it) ==
    IF includes(it, "fix") THEN "fixed"
    ELSE IF includes(it, "add") \/ includes(it, "initial") THEN "added"
    ELSE IF includes(it, "improv") \/ includes(it, "updat") THEN "improved"
    ELSE "other"

\* `${it} (v${v.version})`
tagged(it, version) == [item |-> it.raw, version |-> version]

\* the items of one block pushed to their buckets, from item j
RECURSIVE groupItems(_, _, _)
groupItems(grouped, v, j) ==
    IF j > Len(v.items) THEN grouped
    ELSE groupItems([grouped EXCEPT ![bucketOf(v.items[j])] =
                                        Append(@, tagged(v.items[j], v.version))],
                    v, j + 1)

\* the second loop, over the relevant blocks from block i
RECURSIVE groupFrom(_, _, _)
groupFrom(grouped, relevant, i) ==
    IF i > Len(relevant) THEN grouped
    ELSE groupFrom(groupItems(grouped, relevant[i], 1), relevant, i + 1)

EmptyGroups == [added |-> <<>>, improved |-> <<>>, fixed |-> <<>>, other |-> <<>>]

Entry(title, type, items) == [title |-> title, type |-> type, items |-> items]

\* the entries pushed for the non-empty buckets
resultOf(grouped) ==
    (IF grouped.added # <<>> THEN <<Entry("New Features", "added", grouped.added)>> ELSE <<>>)
    \o (IF grouped.improved # <<>>
        THEN <<Entry("Improvements", "improved", grouped.improved)>> ELSE <<>>)
    \o (IF grouped.fixed # <<>> THEN <<Entry("Fixes", "fixed", grouped.fixed)>> ELSE <<>>)
    \o (IF grouped.other # <<>>
        THEN <<Entry("Other Changes", "progress", grouped.other)>> ELSE <<>>)

vcParseChangelog(md, from, to) ==
    LET versions == blocksFrom(md, 1, <<>>, <<>>, <<>>)
        relevant == relevantOf(versions, from, to)
    IN  resultOf(groupFrom(EmptyGroups, relevant, 1))

ChangelogFrame ==
    UNCHANGED <<lifeVars, conv, sigs, wait, bdapi, req, emitter, data, modal, mangled,
                patcher, boot, layer>>

NoLines == <<>>

IsNewer ==
    /\ changelog.phase = "compare"
    /\ changelog' = [changelog EXCEPT !.phase = "compared",
                                      !.newer = vcIsNewer(changelog.from, changelog.to)]
    /\ ChangelogFrame

ParseChangelog ==
    /\ changelog.phase \in {"parse", "parsed"} /\ changelog.parses < MaxParses
    /\ LET versions == blocksFrom(changelog.md, 1, <<>>, <<>>, <<>>)
       IN changelog' =
            [changelog EXCEPT
                !.phase = "parsed",
                !.parses = @ + 1,
                !.previous = changelog.result,
                !.kept = relevantOf(versions, changelog.from, changelog.to),
                !.result = vcParseChangelog(changelog.md, changelog.from, changelog.to)]
    /\ ChangelogFrame

InitChangelog ==
    /\ InitLife /\ pluginsStatus = <<>>
    /\ conv = IdleConv /\ sigs = IdleSigs /\ wait = IdleWait
    /\ bdapi = Idle /\ req = Idle /\ emitter = Idle /\ data = Idle
    /\ modal = Idle /\ mangled = Idle /\ patcher = Idle
    /\ boot = Idle /\ layer = Idle
    /\ \/ \E v1 \in VersionStrings, v2 \in VersionStrings :
            changelog = [phase |-> "compare", from |-> v1, to |-> v2, md |-> NoLines,
                         newer |-> FALSE, parses |-> 0, kept |-> <<>>,
                         previous |-> <<>>, result |-> <<>>]
       \/ \E md \in UNION {[1..n -> Lines] : n \in 1..MaxLines},
             from \in HeadVersions, to \in HeadVersions :
            changelog = [phase |-> "parse", from |-> from, to |-> to, md |-> md,
                         newer |-> FALSE, parses |-> 0, kept |-> <<>>,
                         previous |-> <<>>, result |-> <<>>]

NextChangelog == IsNewer \/ ParseChangelog

SpecChangelog == InitChangelog /\ [][NextChangelog]_vars

\* the integer tuple of a version string, missing components taken as 0
TupleOf(v) == [i \in 1..(MaxComponents + 1) |-> IF i \in DOMAIN v THEN Number(v[i]) ELSE 0]

\* left-to-right numeric comparison of the tuples
TupleGreater(x, y) ==
    \E i \in DOMAIN x : x[i] > y[i] /\ \A j \in 1..(i - 1) : x[j] = y[j]

\* the heading line that opens the block line i of the text belongs to; 0 if none
HeadingOf(md, i) ==
    LET hs == {h \in 1..i : md[h].kind = "heading"}
    IN  IF hs = {} THEN 0 ELSE CHOOSE h \in hs : \A g \in hs : g <= h

\* the heading lines whose version v satisfies from < v <= to, in text order
KeptHeadings(md, from, to) ==
    SelectSeq([i \in DOMAIN md |-> i],
              LAMBDA h : /\ md[h].kind = "heading"
                         /\ TupleGreater(TupleOf(md[h].version), TupleOf(from))
                         /\ ~TupleGreater(TupleOf(md[h].version), TupleOf(to)))

\* C22: vcIsNewer(a, b) is true exactly when the integer tuple of a is greater than
\* that of b, missing components taken as 0, and the changelog parser keeps a version
\* block if and only if from < version <= to under that order.
C22_NewerIsTupleOrder ==
    /\ changelog.phase = "compared" =>
           changelog.newer = TupleGreater(TupleOf(changelog.from), TupleOf(changelog.to))
    /\ changelog.phase = "parsed" =>
           LET hs == KeptHeadings(changelog.md, changelog.from, changelog.to) IN
           /\ Len(changelog.kept) = Len(hs)
           /\ \A k \in DOMAIN hs : changelog.kept[k].version = changelog.md[hs[k]].version

\* "1.9.0" has been compared with "1.10.0" and is not newer
C22_Witness ==
    /\ changelog.phase = "compared" /\ ~changelog.newer
    /\ changelog.from = V(<<1>>, <<9>>, <<0>>) /\ changelog.to = V(<<1>>, <<1, 0>>, <<0>>)

\* the bullets of the kept blocks, as line numbers in text order
RelevantBullets(md, from, to) ==
    SelectSeq([i \in DOMAIN md |-> i],
              LAMBDA i : /\ md[i].kind = "bullet" /\ md[i].item.raw # ""
                         /\ HeadingOf(md, i) \in Range(KeptHeadings(md, from, to)))

\* the entry type a bullet belongs to: fixed > added/initial > improved/updated > other
TypeByPriority(it) ==
    CASE "fix" \in it.contains -> "fixed"
      [] "fix" \notin it.contains /\ it.contains \cap {"add", "initial"} # {} -> "added"
      [] it.contains \cap {"fix", "add", "initial"} = {}
            /\ it.contains \cap {"improv", "updat"} # {} -> "improved"
      [] OTHER -> "progress"

EntryTypes == <<"added", "improved", "fixed", "progress">>

\* C23: every bullet of a relevant version block appears in exactly one entry, chosen
\* by the priority fixed > added/initial > improved/updated > other and tagged with
\* its version; there is one entry per non-empty bucket in the order added, improved,
\* fixed, other, never an empty one; parsing again gives an equal result.
C23_BulletsBucketedOnce ==
    changelog.phase = "parsed" =>
        LET md == changelog.md
            rel == RelevantBullets(md, changelog.from, changelog.to)
            want(type) ==
                LET sel == SelectSeq(rel, LAMBDA i : TypeByPriority(md[i].item) = type)
                IN  [k \in DOMAIN sel |->
                        [item |-> md[sel[k]].item.raw,
                         version |-> md[HeadingOf(md, sel[k])].version]]
            at(type) == {e \in DOMAIN changelog.result : changelog.result[e].type = type}
        IN  /\ \A e \in DOMAIN changelog.result : changelog.result[e].items # <<>>
            /\ \A e, f \in DOMAIN changelog.result :
                   e < f => IndexOf(EntryTypes, changelog.result[e].type)
                                < IndexOf(EntryTypes, changelog.result[f].type)
            /\ \A t \in DOMAIN EntryTypes :
                   IF want(EntryTypes[t]) = <<>> THEN at(EntryTypes[t]) = {}
                   ELSE /\ Cardinality(at(EntryTypes[t])) = 1
                        /\ \A e \in at(EntryTypes[t]) :
                               changelog.result[e].items = want(EntryTypes[t])
            /\ changelog.parses > 1 => changelog.previous = changelog.result

\* a text parsed twice whose bullet with both "fix" and "add" sits in the entry of
\* the fixes, after an entry of additions
C23_Witness ==
    /\ changelog.phase = "parsed" /\ changelog.parses = 2
    /\ Len(changelog.result) = 2
    /\ changelog.result[1].type = "added"
    /\ changelog.result[2].type = "fixed"
    /\ changelog.result[2].items =
           <<[item |-> "Fixed crash when adding", version |-> V(<<1>>, <<1, 0>>, <<0>>)]>>

\* ---------------------------------------------------------------------------
\* start() of the layer: what the scan of the plugin folder waits for
\* ---------------------------------------------------------------------------

\* polls of the crypto interval that find the hashes not loaded yet
MaxTicks == 2

\* Settings.plugins["BD Compatibility Layer"].safeMode
SafeModes == {"undefined", "false", "true"}

\* safeMode == undefined || safeMode == false
mayResolveFs(safeMode) == safeMode \in {"undefined", "false"}

\* the gate fulfilled by the first promise that is
promiseAll_first(all, states) ==
    IF all # "pending" THEN all
    ELSE IF \E i \in DOMAIN states : states[i] = "fulfilled" THEN "fulfilled"
    ELSE "pending"

\* Promise.all over the three promises: rejected as soon as one is, fulfilled when
\* all are; a settled promise stays as it is
promiseAll(all, states) ==
    IF all # "pending" THEN all
    ELSE IF \E i \in DOMAIN states : states[i] = "rejected" THEN "rejected"
    ELSE IF \A i \in DOMAIN states : states[i] = "fulfilled" THEN "fulfilled"
    ELSE "pending"

\* the gate of start() after a promise has changed
gate(b) ==
    [b EXCEPT !.all = promiseAll(b.all, <<b.fsReadyPromise, b.injectedAndPatched,
                                          b.cryptoPromise>>)]

BootFrame ==
    UNCHANGED <<files, mtime, timers, ops, running, pageReloaded, writes, pendingChangelogs,
                conv, sigs, wait, bdapi, req, emitter, data, modal, mangled, patcher,
                changelog, layer>>

LifeQuiet ==
    UNCHANGED <<recs, plugins, enabled, pluginsStatus, GeneratedPlugins, queuedPlugins,
                notices, micro, scanned>>

\* the storage backend is configured and `path` is loaded: fs and path are set, and
\* fsReadyPromise is resolved unless the layer is in safe mode
FsConfigured ==
    /\ boot.phase = "starting" /\ boot.fs = "pending"
    /\ boot' = gate([boot EXCEPT !.fs = "ready",
                                 !.fsReadyPromise = IF mayResolveFs(boot.safeMode)
                                                    THEN "fulfilled" ELSE @])
    /\ LifeQuiet /\ BootFrame

\* the download or the configuration of the storage backend fails
FsFails ==
    /\ boot.phase = "starting" /\ boot.fs = "pending"
    /\ boot' = [boot EXCEPT !.fs = "failed"]
    /\ LifeQuiet /\ BootFrame

\* addDiscordModules, Patcher.setup and addContextMenu are through, or one rejected
InjectedSettles(outcome) ==
    /\ boot.phase = "starting" /\ boot.injectedAndPatched = "pending"
    /\ boot' = gate([boot EXCEPT !.injectedAndPatched = outcome])
    /\ LifeQuiet /\ BootFrame

\* the two imports of the hash implementations are through, or one failed
NobleSettles(loaded) ==
    /\ boot.phase = "starting" /\ boot.noble = "loading"
    /\ boot' = [boot EXCEPT !.noble = IF loaded THEN "ready" ELSE "failed"]
    /\ LifeQuiet /\ BootFrame

\* setInterval(..., 100): resolve once nobleReady is seen
CheckCrypto ==
    /\ boot.phase = "starting" /\ boot.cryptoPromise = "pending"
    /\ IF boot.noble = "ready"
       THEN boot' = gate([boot EXCEPT !.cryptoPromise = "fulfilled"])
       ELSE /\ boot.ticks < MaxTicks
            /\ boot' = [boot EXCEPT !.ticks = @ + 1]
    /\ LifeQuiet /\ BootFrame

\* .then(() => { ... }) of the gate: the plugin folder is listed, every plugin file
\* read and handed to convertPlugin
GateThen ==
    /\ boot.phase = "starting" /\ boot.all = "fulfilled" /\ ~boot.thenRan
    /\ ~scanned /\ ~running
    /\ LET sc == scanFolder(Heap(CalmEnv))
       IN /\ Commit(sc.heap)
          /\ micro' = micro \o AddTasks(sc.done, 0)
    /\ scanned' = TRUE
    /\ boot' = [boot EXCEPT !.thenRan = TRUE,
                            !.filesRead = {f \in FileNames : files[f].exists}]
    /\ BootFrame

\* .then(plugin => addCustomPlugin(plugin)) of the scan
BootAdd ==
    /\ boot.phase = "starting"
    /\ CanRun("add")
    /\ Commit(addCustomPlugin(Heap(CalmEnv), Head(micro).rec))
    /\ micro' = Tail(micro)
    /\ UNCHANGED <<scanned, boot>>
    /\ BootFrame

InitBoot ==
    /\ InitLife
    /\ conv = IdleConv /\ sigs = IdleSigs /\ wait = IdleWait
    /\ bdapi = Idle /\ req = Idle /\ emitter = Idle /\ data = Idle
    /\ modal = Idle /\ mangled = Idle /\ patcher = Idle
    /\ changelog = Idle /\ layer = Idle
    /\ \E safeMode \in SafeModes :
           boot = [phase |-> "starting", safeMode |-> safeMode, fs |-> "pending",
                   fsReadyPromise |-> "pending", injectedAndPatched |-> "pending",
                   noble |-> "loading", cryptoPromise |-> "pending", all |-> "pending",
                   ticks |-> 0, thenRan |-> FALSE, filesRead |-> {}]

NextBoot ==
    \/ FsConfigured
    \/ FsFails
    \/ \E outcome \in {"fulfilled", "rejected"} : InjectedSettles(outcome)
    \/ \E loaded \in BOOLEAN : NobleSettles(loaded)
    \/ CheckCrypto
    \/ GateThen
    \/ BootAdd

SpecBoot == InitBoot /\ [][NextBoot]_vars

\* a plugin file has been read or assembled
PluginTouched ==
    \/ boot.filesRead # {} \/ recs # <<>> \/ queuedPlugins # <<>>
    \/ GeneratedPlugins # <<>> \/ scanned
    \/ \E n \in DOMAIN plugins : IsRecord(plugins[n])

\* C28: during layer start no plugin file is read or assembled before the storage
\* backend is ready, the patcher and context-menu setup has finished and the hash
\* implementations are loaded; in safe mode fsReadyPromise is never resolved and no
\* plugin is assembled.
C28_ScanWaitsForAll ==
    boot.phase = "starting" =>
        /\ PluginTouched =>
               /\ boot.fs = "ready" /\ boot.fsReadyPromise = "fulfilled"
               /\ boot.injectedAndPatched = "fulfilled"
               /\ boot.noble = "ready"
        /\ boot.safeMode = "true" =>
               boot.fsReadyPromise = "pending" /\ ~PluginTouched

\* the three are through, the folder was scanned and its plugins are registered,
\* after a poll that came too early
C28_Witness ==
    /\ boot.phase = "starting" /\ boot.thenRan /\ boot.ticks > 0
    /\ boot.filesRead = FileNames
    /\ Len(GeneratedPlugins) = 2

\* ---------------------------------------------------------------------------
\* stop() of the layer
\* ---------------------------------------------------------------------------

\* the properties assignToGlobal defines on the global API object and cleanupGlobal
\* deletes again (those stop() reads)
api_gettersToSet == {"DOM", "Patcher"}

ThemeIds == {"ThemeA", "ThemeB"}
LayerStyles == {"OwOStylesOwO", "bd-compat-layer-stuff", "bd-flex-styles"}

\* the statements of stop(), in order
StopSteps ==
    <<"observer", "router", "contextMenu", "plugins", "css", "settingsTab", "global",
      "compatLayer", "commands", "cleanupGlobal", "deleteBdApi", "zip", "fileSystem",
      "flexStyles", "themes">>

\* getGlobalApi().key.method(...): window.BdApi is read, then the property, then the
\* method is called; a TypeError when window.BdApi or the property is undefined
apiThrows(L, key) ==
    \/ ~L.BdApi
    \/ key \in api_gettersToSet /\ ~L.getters

TypeError(L, step) == [L EXCEPT !.phase = "rejected", !.error = step]

\* api_gettersToSet.forEach(key => delete globalApi[key])
cleanupGlobal(L) ==
    IF ~L.BdApi THEN TypeError(L, "cleanupGlobal")
    ELSE [L EXCEPT !.getters = FALSE]

\* one statement of stop() other than the await of removeAllCustomPlugins
teardown(L, step) ==
    CASE step = "observer" ->
             IF L.BdCompatLayer THEN [L EXCEPT !.observer = FALSE] ELSE L
      [] step = "router" ->
             IF L.BdCompatLayer THEN [L EXCEPT !.routerListener = FALSE] ELSE L
      [] step = "contextMenu" ->
             IF apiThrows(L, "Patcher") THEN TypeError(L, step)
             ELSE [L EXCEPT !.contextMenuPatched = FALSE]
      [] step = "css" ->
             IF apiThrows(L, "DOM") THEN TypeError(L, step)
             ELSE [L EXCEPT !.styles = @ \ {"OwOStylesOwO", "bd-compat-layer-stuff"}]
      [] step = "settingsTab" -> [L EXCEPT !.settingsTab = FALSE]
      [] step = "global" ->
             [L EXCEPT !.globalDefine = @ /\ ~L.globalDefineWasNotExisting
                                          /\ ~L.globalWasNotExisting,
                       !.global = @ /\ ~L.globalWasNotExisting]
      [] step = "compatLayer" -> [L EXCEPT !.BdCompatLayer = FALSE]
      [] step = "commands" ->
             \* a throw in here is caught and logged
             IF ~L.BdApi \/ L.commandsThrow THEN L
             ELSE [L EXCEPT !.commands = FALSE]
      [] step = "cleanupGlobal" -> cleanupGlobal(L)
      [] step = "deleteBdApi" -> [L EXCEPT !.BdApi = FALSE]
      [] step = "zip" -> [L EXCEPT !.zip = FALSE]
      [] step = "fileSystem" -> [L EXCEPT !.BrowserFS = FALSE, !.bufferRestored = TRUE]
      [] step = "flexStyles" ->
             IF apiThrows(L, "DOM") THEN TypeError(L, step)
             ELSE [L EXCEPT !.styles = @ \ {"bd-flex-styles"}]
      [] step = "themes" ->
             IF apiThrows(L, "Themes") THEN TypeError(L, step)
             ELSE [L EXCEPT !.themes = {}]
      [] OTHER -> L

\* the statement is through: on to the next, or the promise of stop() settles
advance(L) ==
    IF L.phase = "rejected" THEN L
    ELSE IF L.pc = Len(StopSteps) THEN [L EXCEPT !.phase = "stopped", !.pc = 0]
    ELSE [L EXCEPT !.pc = @ + 1]

StopFrame ==
    UNCHANGED <<files, mtime, timers, ops, running, pageReloaded, writes, pendingChangelogs,
                conv, sigs, wait, bdapi, req, emitter, data, modal, mangled, patcher,
                changelog, boot>>

\* the plugin folder is scanned while the layer runs
LayerScan ==
    /\ layer.phase = "started"
    /\ StartScan

LayerAdd ==
    /\ layer.phase = "started"
    /\ RunAdd

\* the host calls stop()
BeginStop ==
    /\ layer.phase = "started" /\ ~running
    /\ layer' = [layer EXCEPT !.phase = "stopping", !.pc = 1]
    /\ LifeQuiet
    /\ StopFrame

\* the next statement of stop()
StopStep ==
    /\ layer.phase = "stopping"
    /\ LET step == StopSteps[layer.pc]
       IN IF step = "plugins"
          THEN LET S == removeAllCustomPlugins(Heap(CalmEnv))
               IN /\ Commit(S)
                  /\ layer' = IF Threw(S) THEN TypeError(layer, step) ELSE advance(layer)
          ELSE /\ layer' = advance(teardown(layer, step))
               /\ UNCHANGED <<recs, plugins, enabled, pluginsStatus, GeneratedPlugins,
                               queuedPlugins, notices>>
    /\ UNCHANGED <<micro, scanned>>
    /\ StopFrame

Started ==
    [phase : {"started"}, pc : {0}, error : {"none"},
     BdApi : {TRUE}, getters : {TRUE}, BdCompatLayer : {TRUE},
     observer : {TRUE}, routerListener : {TRUE}, contextMenuPatched : {TRUE},
     settingsTab : {TRUE}, commands : {TRUE}, BrowserFS : {TRUE},
     bufferRestored : {FALSE}, global : {TRUE}, globalDefine : {TRUE},
     styles : {LayerStyles},
     zip : BOOLEAN, commandsThrow : BOOLEAN, themes : SUBSET ThemeIds,
     globalWasNotExisting : BOOLEAN, globalDefineWasNotExisting : BOOLEAN]

InitStop ==
    /\ InitLife
    /\ conv = IdleConv /\ sigs = IdleSigs /\ wait = IdleWait
    /\ bdapi = Idle /\ req = Idle /\ emitter = Idle /\ data = Idle
    /\ modal = Idle /\ mangled = Idle /\ patcher = Idle
    /\ changelog = Idle /\ boot = Idle
    /\ layer \in {L \in Started : L.globalWasNotExisting => L.globalDefineWasNotExisting}

NextStop ==
    \/ LayerScan
    \/ LayerAdd
    \/ BeginStop
    \/ StopStep

SpecStop == InitStop /\ [][NextStop]_vars

\* C29 as stated: stop() runs every teardown step without throwing and never reads
\* the global API object after cleanupGlobal() and the deletion of window.BdApi, so
\* the bd-flex-styles style is removed and the enabled themes are disabled.
C29_StopRunsToCompletion ==
    /\ layer.phase # "rejected"
    /\ layer.phase = "stopped" => "bd-flex-styles" \notin layer.styles /\ layer.themes = {}

\* stop() has ended with a TypeError at the removal of bd-flex-styles, with the style
\* and an enabled theme left behind
C29_StopRejected ==
    /\ layer.phase = "rejected" /\ layer.error = "flexStyles"
    /\ ~layer.BdApi /\ "bd-flex-styles" \in layer.styles /\ layer.themes # {}

====
